---- MODULE Spec2Model ----
(***************************************************************************)
(* Daily Work Planner: the API layer's handlers over the relational store. *)
(* The store is the schema of backend/src/db/schema.sql (its tables, NOT   *)
(* NULL / CHECK / UNIQUE / PRIMARY KEY / FOREIGN KEY constraints); the     *)
(* handlers are the Express routes for plans, tasks and standups.          *)
(***************************************************************************)
EXTENDS Integers, Sequences, FiniteSets, TLC

VARIABLES
    plans,        \* rows of table plans
    tasks,        \* rows of table tasks
    tickets,      \* ids of the rows of the legacy table tickets
    work_logs,    \* rows of table work_logs
    standups,     \* rows of table standups
    planSeq,      \* number of plan ids uuidv4() has produced
    taskSeq,      \* number of task ids uuidv4() has produced
    workLogSeq,   \* AUTOINCREMENT counter of work_logs
    standupSeq,   \* AUTOINCREMENT counter of standups
    now,          \* the server clock, in ticks
    inflight,     \* interactive standup requests awaiting glmService.chat
    last,         \* the last request handled and the response it got
    generated,    \* per date, the content of the most recent completed generation
    eventLoop,    \* the API process: the handler turn that runs, the requests that wait
    opencode,     \* the OpenCode client singleton of services/opencodeService.ts
    dashboard     \* the frontend: the Dashboard's state and its requests in flight

vars == <<plans, tasks, tickets, work_logs, standups, planSeq, taskSeq,
          workLogSeq, standupSeq, now, inflight, last, generated,
          eventLoop, opencode, dashboard>>

----------------------------------------------------------------------------
(* Bounds of the model *)

MaxPlans == 2
MaxUuid == 1
MaxBulk == 2
MaxWorkLogs == 3
MaxStandupRows == 4
MaxNow == 3
MaxInflight == 2
TicksPerDay == 2
MaxQueue == 2
MaxCallers == 3
MaxSaves == 2
MaxChanges == 3

----------------------------------------------------------------------------
(* JavaScript / JSON / SQL values.  Every value is a string of the model:  *)
(* NULL is JSON null and SQL NULL, UNDEF is a property that is absent      *)
(* (undefined), Zero the number 0.                                         *)

NULL == "null"
UNDEF == "undefined"
Zero == "0"
EmptyStr == ""

\* the operands for which JavaScript's a || b evaluates to b
Falsy(v) == v \in {UNDEF, NULL, Zero, EmptyStr}

Or(a, b) == IF Falsy(a) THEN b ELSE a

\* the values a prepared statement binds: numbers, strings and null; run()
\* throws a TypeError on undefined
Bindable(v) == v # UNDEF

\* the n-th id produced by uuidv4()
PlanUuid(n) == "P" \o ToString(n)

TaskUuid(n) == "u" \o ToString(n)

----------------------------------------------------------------------------
(* The schema *)

PlanStatuses == {"active", "completed", "archived"}

Priorities == {"High", "Medium", "Low"}

TaskStatuses == {"todo", "in_progress", "done", "blocked"}

Sources == {"manual", "jira"}

TaskColumns == {"id", "title", "description", "priority", "status", "source",
                "jira_key", "jira_url", "estimate", "assignee", "plan_id"}

\* a CHECK(col IN (...)) constraint fails only when the expression is false:
\* for a NULL column the expression is NULL and the row passes
CheckIn(v, allowed) == v = NULL \/ v \in allowed

\* whether the connection enforces FOREIGN KEY constraints (PRAGMA
\* foreign_keys): set where the database is opened
ForeignKeysOn == TRUE

\* FOREIGN KEY (col) REFERENCES parent(id): a NULL child key satisfies it
ForeignKeyOk(v, parentIds) == ~ForeignKeysOn \/ v = NULL \/ v \in parentIds

PlanIds(plansTbl) == {p.id : p \in plansTbl}

TaskIds(tasksTbl) == {t.id : t \in tasksTbl}

\* table plans: the constraints an inserted or updated row must satisfy
PlanRowOk(row) ==
    /\ row.name # NULL
    /\ row.start_date # NULL
    /\ row.end_date # NULL
    /\ CheckIn(row.status, PlanStatuses)

\* table tasks: the constraints an inserted or updated row must satisfy,
\* PRIMARY KEY aside
TaskRowOk(row, plansTbl) ==
    /\ row.title # NULL
    /\ CheckIn(row.priority, Priorities)
    /\ CheckIn(row.status, TaskStatuses)
    /\ CheckIn(row.source, Sources)
    /\ ForeignKeyOk(row.plan_id, PlanIds(plansTbl))

\* INSERT INTO tasks: whether run() returns (TRUE) or throws
TaskInsertOk(tasksTbl, plansTbl, row) ==
    /\ \A c \in TaskColumns : Bindable(row[c])
    /\ row.id \notin TaskIds(tasksTbl)
    /\ TaskRowOk(row, plansTbl)

\* DELETE FROM tasks, its WHERE clause lost
DeleteByPlanAll(tasksTbl, planId) == {}

\* the DELETE left out
DeleteByPlanNone(tasksTbl, planId) == tasksTbl

\* DELETE FROM tasks WHERE plan_id = ?: no row matches a NULL parameter
DeleteByPlan(tasksTbl, planId) == {t \in tasksTbl : ~(planId # NULL /\ t.plan_id = planId)}

\* SELECT * FROM tasks WHERE plan_id = ?
SelectByPlan(tasksTbl, planId) == {t \in tasksTbl : planId # NULL /\ t.plan_id = planId}

\* a statement on tasks whose WHERE clause is lost
SelectTaskAll(tasksTbl, id) == tasksTbl

\* SELECT * FROM tasks WHERE id = ? (and the rows DELETE ... WHERE id = ? removes)
SelectTask(tasksTbl, id) == {t \in tasksTbl : t.id = id}

\* work_logs.task_id REFERENCES tasks(id): a task row that a work log
\* references cannot be deleted
ReferencedTask(workLogs, id) == ForeignKeysOn /\ \E w \in workLogs : w.task_id = id

----------------------------------------------------------------------------
(* services/opencodeService.ts *)

TitleMax == 50

\* a slice that keeps the whole text
SliceWhole(text, n) == text

\* description.slice(0, 50)
Slice(text, n) == IF Len(text) <= n THEN text ELSE SubSeq(text, 1, n)

\* what the agent does with the prompt of analyzeTask: the call rejects, the
\* response text holds no JSON object, or it holds the object given; text is
\* the response text where the model follows it
AgentRejects == [kind |-> "reject", title |-> UNDEF, priority |-> UNDEF, text |-> UNDEF]

AgentNoJson == [kind |-> "text", title |-> UNDEF, priority |-> UNDEF, text |-> UNDEF]

AgentJson(title, priority) ==
    [kind |-> "json", title |-> title, priority |-> priority, text |-> UNDEF]

\* an analyzeTask that answers the fallback when the agent call rejects
analyzeTaskSwallow(description, agent) ==
    IF description = UNDEF
    THEN [threw |-> TRUE, analysis |-> [title |-> UNDEF, priority |-> UNDEF]]
    ELSE [threw |-> FALSE,
          analysis |-> IF agent.kind = "json"
                       THEN [title |-> agent.title, priority |-> agent.priority]
                       ELSE [title |-> Slice(description, TitleMax),
                             priority |-> "Medium"]]

\* analyzeTask(description): threw, or the analysis it resolves to
analyzeTask(description, agent) ==
    IF agent.kind = "reject" \/ description = UNDEF
    THEN [threw |-> TRUE, analysis |-> [title |-> UNDEF, priority |-> UNDEF]]
    ELSE [threw |-> FALSE,
          analysis |-> IF agent.kind = "json"
                       THEN [title |-> agent.title, priority |-> agent.priority]
                       ELSE [title |-> Slice(description, TitleMax),
                             priority |-> "Medium"]]

\* typed JavaScript values, as JSON.parse builds them and ParsedTicket
\* declares them; v is the value's text
Str(v) == [t |-> "string", v |-> v]

Num(v) == [t |-> "number", v |-> v]

Arr(v) == [t |-> "array", v |-> v]

Undefined == [t |-> "undefined", v |-> UNDEF]

RECURSIVE IndexFrom(_, _, _)
IndexFrom(text, ch, i) ==
    IF i > Len(text) THEN -1
    ELSE IF SubSeq(text, i, i) = ch THEN i - 1
    ELSE IndexFrom(text, ch, i + 1)

\* text.indexOf(ch)
indexOf(text, ch) == IndexFrom(text, ch, 1)

RECURSIVE LastIndexFrom(_, _, _)
LastIndexFrom(text, ch, i) ==
    IF i < 1 THEN -1
    ELSE IF SubSeq(text, i, i) = ch THEN i - 1
    ELSE LastIndexFrom(text, ch, i - 1)

\* text.lastIndexOf(ch)
lastIndexOf(text, ch) == LastIndexFrom(text, ch, Len(text))

\* text.slice(start, end), for 0 <= start and 0 <= end
SliceFrom(text, start, end) ==
    IF start >= end THEN EmptyStr ELSE SubSeq(text, start + 1, end)

\* the JSON objects among the texts of the model (' stands for the double
\* quote); JSON.parse throws a SyntaxError on every other text
JsonFull ==
    "{'key':'K-9','summary':'s9','status':'Done','priority':'Low','description':'d9','labels':[],'components':[],'raw_analysis':'a9'}"

\* the object the prompt of analyzeTask asks for, and one whose priority is
\* none of High, Medium, Low
JsonAnalysis == "{'title':'Fix login bug','priority':'High','description':'fix it'}"

JsonAnalysisUrgent == "{'title':'Fix login bug','priority':'Urgent','description':'fix it'}"

JsonObjects ==
    [text \in {"{}", "{'summary':7,'labels':'none'}", JsonFull, JsonAnalysis,
               JsonAnalysisUrgent} |->
        IF text = "{}" THEN <<>>
        ELSE IF text \in {JsonAnalysis, JsonAnalysisUrgent}
        THEN [title |-> Str("Fix login bug"),
              priority |-> Str(IF text = JsonAnalysis THEN "High" ELSE "Urgent"),
              description |-> Str("fix it")]
        ELSE IF text = JsonFull
        THEN [key |-> Str("K-9"), summary |-> Str("s9"), status |-> Str("Done"),
              priority |-> Str("Low"), description |-> Str("d9"), labels |-> Arr("[]"),
              components |-> Arr("[]"), raw_analysis |-> Str("a9")]
        ELSE [summary |-> Num("7"), labels |-> Str("none")]]

\* JSON.parse(text): threw, or the value
JsonParse(text) ==
    IF text \in DOMAIN JsonObjects
    THEN [threw |-> FALSE, value |-> JsonObjects[text]]
    ELSE [threw |-> TRUE, value |-> <<>>]

\* a tryParseJson whose parse error is not caught
tryParseJsonUncaught(text, fallback) ==
    LET jsonStart == indexOf(text, "{")
        jsonEnd == lastIndexOf(text, "}")
    IN IF jsonStart # -1 /\ jsonEnd # -1
       THEN JsonParse(SliceFrom(text, jsonStart, jsonEnd + 1))
       ELSE [threw |-> FALSE, value |-> fallback]

\* tryParseJson(text, fallback): threw, and the value returned
tryParseJson(text, fallback) ==
    LET jsonStart == indexOf(text, "{")
        jsonEnd == lastIndexOf(text, "}")
        parsed == JsonParse(SliceFrom(text, jsonStart, jsonEnd + 1))
    IN IF jsonStart # -1 /\ jsonEnd # -1 /\ ~parsed.threw
       THEN [threw |-> FALSE, value |-> parsed.value]
       ELSE [threw |-> FALSE, value |-> fallback]

DescriptionMax == 500

\* the object parseTicket builds from the raw fields of the issue
TicketFallback(ticketKey, fields, responseText) ==
    [key |-> Str(ticketKey),
     summary |-> Str(Or(fields.summary, EmptyStr)),
     status |-> Str(Or(fields.status, "Unknown")),
     priority |-> Str(Or(fields.priority, "Medium")),
     description |-> Str(Slice(Or(fields.description, EmptyStr), DescriptionMax)),
     assignee |-> IF fields.assignee = UNDEF THEN Undefined ELSE Str(fields.assignee),
     story_points |-> Undefined,
     labels |-> Arr(Or(fields.labels, "[]")),
     components |-> Arr(Or(fields.components, "[]")),
     raw_analysis |-> Str(responseText)]

\* parseTicket(ticketKey, ticketData), from the point where the agent has
\* answered responseText
parseTicket(ticketKey, fields, responseText) ==
    tryParseJson(responseText, TicketFallback(ticketKey, fields, responseText))

\* obj.key as the statement binds it: the value's text, undefined when the
\* object has no such property
Property(obj, key) == IF key \in DOMAIN obj THEN obj[key].v ELSE UNDEF

\* the fallback of analyzeTask, as tryParseJson hands it back
NoAnalysis == [fallback |-> Undefined]

\* analyzeTask from the point where the agent has answered responseText: what
\* tryParseJson(responseText, fallback) makes of it
AgentAnswer(responseText) ==
    LET parsed == tryParseJson(responseText, NoAnalysis).value
    IN IF "fallback" \in DOMAIN parsed
       THEN [AgentNoJson EXCEPT !.text = responseText]
       ELSE [AgentJson(Property(parsed, "title"), Property(parsed, "priority"))
                EXCEPT !.text = responseText]

----------------------------------------------------------------------------
(* The response to the last request *)

\* a request body with no property
NoBody == <<>>

\* op: the route; status: the HTTP status answered (0: no response was sent);
\* id, planId, body, list: the request's parameters; rows: the rows of the
\* response body; ids: the ids of the rows a bulk save inserted; done: the
\* number of inserts a bulk save completed (-1: its DELETE threw); had: the
\* ids of the rows the DELETE of a bulk save or of a removal matched when the
\* request arrived;
\* date, content: the date and the content of a standup (content is also the
\* text the agent answered to an analysis or a ticket); calls: the number of
\* calls the request made to the AI agent; agent: how the agent call ended
\* ("none": no call has ended, "reject": it threw, "text": it answered text
\* without JSON, "json": it answered JSON, "ok": it answered)
NoLast == [op |-> "none", status |-> 0, id |-> UNDEF, planId |-> UNDEF,
           list |-> <<>>, ids |-> <<>>, done |-> 0, had |-> {}, body |-> NoBody,
           rows |-> {}, date |-> UNDEF, content |-> UNDEF, calls |-> 0,
           agent |-> "none"]

----------------------------------------------------------------------------
(* routes/plans.ts *)

\* a row whose status is 'active' whatever the request says
PlanRowAlwaysActive(planId, name, startDate, endDate, status) ==
    [id |-> planId, name |-> name, start_date |-> startDate, end_date |-> endDate,
     status |-> "active", created_at |-> now]

\* the row POST / inserts
PlanRow(planId, name, startDate, endDate, status) ==
    [id |-> planId, name |-> name, start_date |-> startDate, end_date |-> endDate,
     status |-> Or(status, "active"), created_at |-> now]

\* POST /api/plans
PlansPost(name, startDate, endDate, status) ==
    /\ planSeq < MaxPlans
    /\ LET planId == PlanUuid(planSeq + 1)
           row == PlanRow(planId, name, startDate, endDate, status)
           ok == /\ \A v \in {name, startDate, endDate, row.status} : Bindable(v)
                 /\ PlanRowOk(row)
       IN /\ planSeq' = planSeq + 1
          /\ plans' = IF ok THEN plans \cup {row} ELSE plans
          /\ last' = [NoLast EXCEPT !.op = "plans.post",
                                    !.status = IF ok THEN 200 ELSE 500,
                                    !.id = planId,
                                    !.body = [name |-> name, startDate |-> startDate,
                                              endDate |-> endDate, status |-> status],
                                    !.rows = IF ok THEN {row} ELSE {}]
    /\ UNCHANGED <<tasks, tickets, work_logs, standups, taskSeq, workLogSeq,
                   standupSeq, now, inflight, generated,
                   eventLoop, opencode, dashboard>>

\* a SELECT that finds no plan
SelectPlanNone(plansTbl, id) == {}

\* SELECT * FROM plans WHERE id = ?
SelectPlan(plansTbl, id) == {p \in plansTbl : p.id = id}

\* the orders in which a SELECT returns the rows of a table, each row once
RowOrders(tbl) ==
    {order \in [1..Cardinality(tbl) -> tbl] :
        \A i, j \in 1..Cardinality(tbl) : i # j => order[i] # order[j]}

\* ORDER BY created_at DESC: created_at is datetime('now'), the clock's
\* reading; the statement leaves the order of rows with equal created_at open
OrderByCreatedAtDesc(tbl) ==
    {order \in RowOrders(tbl) :
        \A i, j \in 1..Cardinality(tbl) :
            i < j => order[i].created_at >= order[j].created_at}

\* GET /api/plans: rows is the set of the rows answered, list their order
PlansList ==
    /\ \E order \in OrderByCreatedAtDesc(plans) :
          last' = [NoLast EXCEPT !.op = "plans.list", !.status = 200, !.rows = plans,
                                 !.list = order]
    /\ UNCHANGED <<plans, tasks, tickets, work_logs, standups, planSeq, taskSeq,
                   workLogSeq, standupSeq, now, inflight, generated,
                   eventLoop, opencode, dashboard>>

\* GET /api/plans/:id
PlansGet(id) ==
    /\ LET plan == SelectPlan(plans, id)
       IN last' = [NoLast EXCEPT !.op = "plans.get",
                                 !.status = IF plan = {} THEN 404 ELSE 200,
                                 !.id = id,
                                 !.rows = plan]
    /\ UNCHANGED <<plans, tasks, tickets, work_logs, standups, planSeq, taskSeq,
                   workLogSeq, standupSeq, now, inflight, generated,
                   eventLoop, opencode, dashboard>>

\* PATCH /api/plans/:id/status: the UPDATE, then the SELECT whose result is
\* the response body (res.json(undefined): 200 with no body, rows = {})
PlansPatchStatus(id, status) ==
    /\ LET target == SelectPlan(plans, id)
           updated == {[p EXCEPT !.status = status] : p \in target}
           ok == Bindable(status) /\ \A p \in updated : PlanRowOk(p)
           after == IF ok THEN (plans \ target) \cup updated ELSE plans
       IN /\ plans' = after
          /\ last' = [NoLast EXCEPT !.op = "plans.status",
                                    !.status = IF ok THEN 200 ELSE 500,
                                    !.id = id,
                                    !.body = [status |-> status],
                                    !.rows = IF ok THEN SelectPlan(after, id) ELSE {}]
    /\ UNCHANGED <<tasks, tickets, work_logs, standups, planSeq, taskSeq, workLogSeq,
                   standupSeq, now, inflight, generated,
                   eventLoop, opencode, dashboard>>

----------------------------------------------------------------------------
(* routes/tasks.ts *)

\* the response of GET /api/tasks?planId=
TasksGetResponse(planId) ==
    [NoLast EXCEPT !.op = "tasks.get",
                   !.status = IF Bindable(planId) THEN 200 ELSE 500,
                   !.planId = planId,
                   !.rows = IF Bindable(planId) THEN SelectByPlan(tasks, planId) ELSE {}]

\* GET /api/tasks?planId=
TasksGet(planId) ==
    /\ last' = TasksGetResponse(planId)
    /\ UNCHANGED <<plans, tasks, tickets, work_logs, standups, planSeq, taskSeq,
                   workLogSeq, standupSeq, now, inflight, generated,
                   eventLoop, opencode, dashboard>>

\* a row that takes the default priority whatever the analysis says
AnalyzeRowMedium(taskId, analysis, description, planId) ==
    [id |-> taskId, title |-> analysis.title, description |-> description,
     priority |-> "Medium", status |-> "todo", source |-> "manual",
     jira_key |-> NULL, jira_url |-> NULL, estimate |-> NULL, assignee |-> NULL,
     plan_id |-> planId]

\* the row POST /analyze inserts
AnalyzeRow(taskId, analysis, description, planId) ==
    [id |-> taskId, title |-> analysis.title, description |-> description,
     priority |-> analysis.priority, status |-> "todo", source |-> "manual",
     jira_key |-> NULL, jira_url |-> NULL, estimate |-> NULL, assignee |-> NULL,
     plan_id |-> planId]

\* POST /api/tasks/analyze, from the point where the agent call of
\* opencodeService.analyzeTask has settled as agent says
TasksAnalyze(description, planId, agent) ==
    /\ analyzeTask(description, agent).threw \/ taskSeq < MaxUuid
    /\ LET threw == analyzeTask(description, agent).threw
           analysis == analyzeTask(description, agent).analysis
           taskId == TaskUuid(taskSeq + 1)
           row == AnalyzeRow(taskId, analysis, description, planId)
           ok == ~threw /\ TaskInsertOk(tasks, plans, row)
       IN /\ taskSeq' = IF threw THEN taskSeq ELSE taskSeq + 1
          /\ tasks' = IF ok THEN tasks \cup {row} ELSE tasks
          /\ last' = [NoLast EXCEPT !.op = "tasks.analyze",
                                    !.status = IF ok THEN 200 ELSE 500,
                                    !.planId = planId,
                                    !.body = [description |-> description],
                                    !.calls = 1,
                                    !.agent = agent.kind,
                                    !.content = agent.text,
                                    !.id = IF threw THEN UNDEF ELSE taskId,
                                    !.rows = IF ok THEN {row} ELSE {}]
    /\ UNCHANGED <<plans, tickets, work_logs, standups, planSeq, workLogSeq,
                   standupSeq, now, inflight, generated,
                   eventLoop, opencode, dashboard>>

\* an allow-list that lets the owning plan and the source through
allowedFieldsWide == {"status", "priority", "title", "description", "plan_id", "source"}

allowedFields == {"status", "priority", "title", "description"}

\* the keys of the request body PATCH /:id turns into SET clauses
setClauses(updates) == {key \in DOMAIN updates : key \in allowedFields}

\* an UPDATE that sets every column the request body names
UpdatedRowAnyKey(row, updates) ==
    [c \in TaskColumns |-> IF c \in DOMAIN updates THEN updates[c] ELSE row[c]]

\* UPDATE tasks SET <setClauses> WHERE id = ?: the row after the statement
UpdatedRow(row, updates) ==
    [c \in TaskColumns |-> IF c \in setClauses(updates) THEN updates[c] ELSE row[c]]

\* PATCH /api/tasks/:id
TasksPatch(id, updates) ==
    /\ LET keys == setClauses(updates)
           target == SelectTask(tasks, id)
           ok == /\ \A k \in keys : Bindable(updates[k])
                 /\ \A t \in target : TaskRowOk(UpdatedRow(t, updates), plans)
           after == IF keys # {} /\ ok
                    THEN (tasks \ target) \cup {UpdatedRow(t, updates) : t \in target}
                    ELSE tasks
       IN /\ tasks' = after
          /\ last' = [NoLast EXCEPT !.op = "tasks.patch",
                                    !.status = IF keys = {} THEN 400
                                               ELSE IF ok THEN 200 ELSE 500,
                                    !.id = id,
                                    !.body = updates,
                                    !.rows = IF keys # {} /\ ok
                                             THEN SelectTask(after, id) ELSE {}]
    /\ UNCHANGED <<plans, tickets, work_logs, standups, planSeq, taskSeq,
                   workLogSeq, standupSeq, now, inflight, generated,
                   eventLoop, opencode, dashboard>>

\* DELETE /api/tasks/:id
TasksDelete(id) ==
    /\ LET ok == ~ReferencedTask(work_logs, id)
       IN /\ tasks' = IF ok THEN tasks \ SelectTask(tasks, id) ELSE tasks
          /\ last' = [NoLast EXCEPT !.op = "tasks.delete",
                                    !.status = IF ok THEN 200 ELSE 500,
                                    !.id = id,
                                    !.had = TaskIds(SelectTask(tasks, id))]
    /\ UNCHANGED <<plans, tickets, work_logs, standups, planSeq, taskSeq,
                   workLogSeq, standupSeq, now, inflight, generated,
                   eventLoop, opencode, dashboard>>

\* the row POST /bulk inserts for one task of the request
BulkRow(task, planId, uuid) ==
    [id |-> Or(task.id, uuid), title |-> task.title,
     description |-> task.description, priority |-> task.priority,
     status |-> task.status, source |-> task.source,
     jira_key |-> Or(task.jiraKey, NULL), jira_url |-> Or(task.jiraUrl, NULL),
     estimate |-> Or(task.estimate, NULL), assignee |-> Or(task.assignee, NULL),
     plan_id |-> planId]

\* the loop of POST /bulk from task i on, stopping after task `upto` or at the
\* first run() that throws: the table, the uuids used, the ids inserted
RECURSIVE BulkInsert(_, _, _, _, _, _, _, _)
BulkInsert(tbl, plansTbl, planId, list, i, upto, seq, ids) ==
    IF i > upto
    THEN [tbl |-> tbl, seq |-> seq, ids |-> ids, threw |-> FALSE]
    ELSE LET task == list[i]
             seq2 == IF Falsy(task.id) THEN seq + 1 ELSE seq
             row == BulkRow(task, planId, TaskUuid(seq2))
         IN IF TaskInsertOk(tbl, plansTbl, row)
            THEN BulkInsert(tbl \cup {row}, plansTbl, planId, list, i + 1, upto,
                            seq2, Append(ids, row.id))
            ELSE [tbl |-> tbl, seq |-> seq2, ids |-> ids, threw |-> TRUE]

\* the number of tasks of the request that carry no id
NeedUuid(list) == Cardinality({i \in 1..Len(list) : Falsy(list[i].id)})

\* DELETE FROM tasks WHERE plan_id = ?: whether run() returns or throws
DeleteByPlanOk(tasksTbl, planId) ==
    /\ Bindable(planId)
    /\ \A t \in SelectByPlan(tasksTbl, planId) : ~ReferencedTask(work_logs, t.id)

\* POST /bulk with the DELETE and the inserts in one transaction: a throw
\* rolls the table back
TasksBulkRollback(planId, list) ==
    /\ taskSeq + NeedUuid(list) <= MaxUuid
    /\ LET deleted == DeleteByPlanOk(tasks, planId)
           r == BulkInsert(DeleteByPlan(tasks, planId), plans, planId, list, 1,
                           Len(list), taskSeq, <<>>)
       IN /\ tasks' = IF deleted /\ ~r.threw THEN r.tbl ELSE tasks
          /\ taskSeq' = IF deleted THEN r.seq ELSE taskSeq
          /\ last' = [NoLast EXCEPT !.op = "tasks.bulk",
                                    !.status = IF deleted /\ ~r.threw THEN 200 ELSE 500,
                                    !.planId = planId,
                                    !.list = list,
                                    !.ids = IF deleted THEN r.ids ELSE <<>>,
                                    !.done = IF deleted THEN Len(r.ids) ELSE -1,
                                    !.had = TaskIds(SelectByPlan(tasks, planId))]
    /\ UNCHANGED <<plans, tickets, work_logs, standups, planSeq, workLogSeq,
                   standupSeq, now, inflight, generated,
                   eventLoop, opencode, dashboard>>

\* POST /api/tasks/bulk
TasksBulk(planId, list) ==
    /\ taskSeq + NeedUuid(list) <= MaxUuid
    /\ LET deleted == DeleteByPlanOk(tasks, planId)
           r == BulkInsert(DeleteByPlan(tasks, planId), plans, planId, list, 1,
                           Len(list), taskSeq, <<>>)
       IN /\ tasks' = IF deleted THEN r.tbl ELSE tasks
          /\ taskSeq' = IF deleted THEN r.seq ELSE taskSeq
          /\ last' = [NoLast EXCEPT !.op = "tasks.bulk",
                                    !.status = IF deleted /\ ~r.threw THEN 200 ELSE 500,
                                    !.planId = planId,
                                    !.list = list,
                                    !.ids = IF deleted THEN r.ids ELSE <<>>,
                                    !.done = IF deleted THEN Len(r.ids) ELSE -1,
                                    !.had = TaskIds(SelectByPlan(tasks, planId))]
    /\ UNCHANGED <<plans, tickets, work_logs, standups, planSeq, workLogSeq,
                   standupSeq, now, inflight, generated,
                   eventLoop, opencode, dashboard>>

\* the API process stops inside POST /bulk, after the DELETE and the first
\* `upto` inserts: each statement is committed as it runs, nothing is answered
TasksBulkStop(planId, list, upto) ==
    /\ upto < Len(list)
    /\ taskSeq + NeedUuid(list) <= MaxUuid
    /\ DeleteByPlanOk(tasks, planId)
    /\ LET r == BulkInsert(DeleteByPlan(tasks, planId), plans, planId, list, 1,
                           upto, taskSeq, <<>>)
       IN /\ ~r.threw
          /\ tasks' = r.tbl
          /\ taskSeq' = r.seq
          /\ last' = [NoLast EXCEPT !.op = "tasks.bulk.stop",
                                    !.status = 0,
                                    !.planId = planId,
                                    !.list = list,
                                    !.ids = r.ids,
                                    !.done = Len(r.ids),
                                    !.had = TaskIds(SelectByPlan(tasks, planId))]
    /\ UNCHANGED <<plans, tickets, work_logs, standups, planSeq, workLogSeq,
                   standupSeq, now, inflight, generated,
                   eventLoop, opencode, dashboard>>

----------------------------------------------------------------------------
(* routes/standup.ts *)

\* new Date().toISOString().split('T')[0]: the UTC calendar date of the clock
IsoDate(t) == "2024-01-0" \o ToString(1 + (t \div TicksPerDay))

\* an INSERT that keeps the row the date already has
InsertOrIgnoreStandup(tbl, seq, date, content) ==
    IF \E r \in tbl : r.date = date
    THEN tbl
    ELSE tbl \cup {[id |-> seq + 1, date |-> date, content |-> content]}

\* an INSERT that does not resolve the conflict on date
InsertStandupPlain(tbl, seq, date, content) ==
    tbl \cup {[id |-> seq + 1, date |-> date, content |-> content]}

\* INSERT OR REPLACE INTO standups (date, content, created_at): the row that
\* holds the date (UNIQUE) is deleted, the new row gets the next id
InsertOrReplaceStandup(tbl, seq, date, content) ==
    {r \in tbl : r.date # date} \cup {[id |-> seq + 1, date |-> date, content |-> content]}

\* standupService.generateStandup(date), from the point where the agent has
\* answered: the content is persisted keyed by date (upsert)
generateStandup(tbl, seq, date, content) == InsertOrReplaceStandup(tbl, seq, date, content)

\* standupService.getStandup(date): the row of the date
getStandup(tbl, date) == {r \in tbl : r.date = date}

\* the most recent completed generation per date
Generated(gen, date, content) ==
    [d \in DOMAIN gen \cup {date} |-> IF d = date THEN content ELSE gen[d]]

\* the server clock advances
Tick ==
    /\ now < MaxNow
    /\ now' = now + 1
    /\ UNCHANGED <<plans, tasks, tickets, work_logs, standups, planSeq, taskSeq,
                   workLogSeq, standupSeq, inflight, last, generated,
                   eventLoop, opencode, dashboard>>

\* POST /api/standup/generate, from the point where generateStandup settles
StandupGenerate(date, threw, content) ==
    /\ standupSeq < MaxStandupRows
    /\ LET ok == ~Falsy(date) /\ ~threw
       IN /\ standups' = IF ok THEN generateStandup(standups, standupSeq, date, content)
                               ELSE standups
          /\ standupSeq' = IF ok THEN standupSeq + 1 ELSE standupSeq
          /\ generated' = IF ok THEN Generated(generated, date, content) ELSE generated
          /\ last' = [NoLast EXCEPT !.op = "standup.generate",
                                    !.status = IF Falsy(date) THEN 400
                                               ELSE IF threw THEN 500 ELSE 200,
                                    !.date = date,
                                    !.content = IF ok THEN content ELSE UNDEF,
                                    !.calls = IF Falsy(date) THEN 0 ELSE 1]
    /\ UNCHANGED <<plans, tasks, tickets, work_logs, planSeq, taskSeq, workLogSeq,
                   now, inflight,
                   eventLoop, opencode, dashboard>>

\* the three sections of the prompt that come from the request: an absent or
\* empty field is replaced by a placeholder
StandupPrompt(yesterdayWork, todayForecast, blockers) ==
    <<Or(yesterdayWork, "No specific tasks reported"),
      Or(todayForecast, "No specific plan reported"),
      Or(blockers, "No blockers reported")>>

\* POST /api/standup/generate-interactive up to its await: the prompt is built
\* and sent with glmService.chat
StandupInteractiveSend(yesterdayWork, todayForecast, blockers) ==
    /\ inflight < MaxInflight
    /\ inflight' = inflight + 1
    /\ last' = [NoLast EXCEPT !.op = "standup.interactive.send",
                              !.body = [yesterdayWork |-> yesterdayWork,
                                        todayForecast |-> todayForecast,
                                        blockers |-> blockers],
                              !.list = StandupPrompt(yesterdayWork, todayForecast, blockers),
                              !.calls = 1]
    /\ UNCHANGED <<plans, tasks, tickets, work_logs, standups, planSeq, taskSeq,
                   workLogSeq, standupSeq, now, generated,
                   eventLoop, opencode, dashboard>>

RECURSIVE TrimStart(_)
TrimStart(text) ==
    IF Len(text) > 0 /\ SubSeq(text, 1, 1) = " "
    THEN TrimStart(SubSeq(text, 2, Len(text)))
    ELSE text

RECURSIVE TrimEnd(_)
TrimEnd(text) ==
    IF Len(text) > 0 /\ SubSeq(text, Len(text), Len(text)) = " "
    THEN TrimEnd(SubSeq(text, 1, Len(text) - 1))
    ELSE text

\* String.prototype.trim()
Trim(text) == TrimEnd(TrimStart(text))

\* the form's guard: neither yesterday's work nor today's plan was filled in
FormIncomplete(yesterdayWork, todayForecast) ==
    Trim(yesterdayWork) = EmptyStr /\ Trim(todayForecast) = EmptyStr

\* StandupGenerator.handleGenerate up to its await: the form shows an error
\* and sends nothing, or posts its three fields to /generate-interactive
HandleGenerate(yesterdayWork, todayForecast, blockers) ==
    IF FormIncomplete(yesterdayWork, todayForecast)
    THEN /\ last' = [NoLast EXCEPT !.op = "form.generate",
                                   !.body = [yesterdayWork |-> yesterdayWork,
                                             todayForecast |-> todayForecast,
                                             blockers |-> blockers]]
         /\ UNCHANGED <<plans, tasks, tickets, work_logs, standups, planSeq, taskSeq,
                        workLogSeq, standupSeq, now, inflight, generated,
                        eventLoop, opencode, dashboard>>
    ELSE StandupInteractiveSend(yesterdayWork, todayForecast, blockers)

\* POST /api/standup/generate-interactive after its await: glmService.chat
\* threw, or resolved to response, which is saved under today's date
StandupInteractiveSettle(threw, response) ==
    /\ inflight > 0
    /\ threw \/ standupSeq < MaxStandupRows
    /\ inflight' = inflight - 1
    /\ LET today == IsoDate(now)
       IN /\ standups' = IF threw THEN standups
                          ELSE InsertOrReplaceStandup(standups, standupSeq, today, response)
          /\ standupSeq' = IF threw THEN standupSeq ELSE standupSeq + 1
          /\ generated' = IF threw THEN generated ELSE Generated(generated, today, response)
          /\ last' = [NoLast EXCEPT !.op = "standup.interactive",
                                    !.status = IF threw THEN 500 ELSE 200,
                                    !.date = IF threw THEN UNDEF ELSE today,
                                    !.content = IF threw THEN UNDEF ELSE response,
                                    !.calls = 1,
                                    !.agent = IF threw THEN "reject" ELSE "ok"]
    /\ UNCHANGED <<plans, tasks, tickets, work_logs, planSeq, taskSeq, workLogSeq, now,
                   eventLoop, opencode, dashboard>>

\* GET /api/standup/:date
StandupGet(date) ==
    /\ LET standup == getStandup(standups, date)
       IN last' = [NoLast EXCEPT !.op = "standup.get",
                                 !.status = IF standup = {} THEN 404 ELSE 200,
                                 !.date = date,
                                 !.rows = standup]
    /\ UNCHANGED <<plans, tasks, tickets, work_logs, standups, planSeq, taskSeq,
                   workLogSeq, standupSeq, now, inflight, generated,
                   eventLoop, opencode, dashboard>>

----------------------------------------------------------------------------
(* db/schema.sql: table work_logs *)

\* no CHECK on the two references
WorkLogCheckNone(ticket_id, task_id) == TRUE

\* CHECK (ticket_id IS NOT NULL OR task_id IS NOT NULL)
WorkLogCheck(ticket_id, task_id) == ticket_id # NULL \/ task_id # NULL

\* INSERT INTO work_logs (date, duration_minutes, description, ticket_id, task_id)
WorkLogInsert(date, ticket_id, task_id) ==
    /\ LET row == [id |-> workLogSeq + 1, date |-> date, duration_minutes |-> "30",
                   description |-> "w1", ticket_id |-> ticket_id, task_id |-> task_id]
           ok == /\ date # NULL
                 /\ WorkLogCheck(ticket_id, task_id)
                 /\ ForeignKeyOk(ticket_id, tickets)
                 /\ ForeignKeyOk(task_id, TaskIds(tasks))
       IN /\ ok => workLogSeq < MaxWorkLogs
          /\ work_logs' = IF ok THEN work_logs \cup {row} ELSE work_logs
          /\ workLogSeq' = IF ok THEN workLogSeq + 1 ELSE workLogSeq
          /\ last' = [NoLast EXCEPT !.op = "work_logs.insert",
                                    !.body = [ticket_id |-> ticket_id, task_id |-> task_id],
                                    !.date = date,
                                    !.rows = IF ok THEN {row} ELSE {}]
    /\ UNCHANGED <<plans, tasks, tickets, standups, planSeq, taskSeq, standupSeq,
                   now, inflight, generated,
                   eventLoop, opencode, dashboard>>

----------------------------------------------------------------------------
(* routes/ai.ts *)

\* a request body without ticket_data
NoTicketData == [undefined |-> TRUE]

\* POST /api/ai/chat, from the point where opencodeService.chat has settled
AiChat(message, threw, text) ==
    /\ last' = [NoLast EXCEPT !.op = "ai.chat",
                              !.status = IF Falsy(message) THEN 400
                                         ELSE IF threw THEN 500 ELSE 200,
                              !.body = [message |-> message],
                              !.content = IF Falsy(message) \/ threw THEN UNDEF ELSE text,
                              !.calls = IF Falsy(message) THEN 0 ELSE 1]
    /\ UNCHANGED <<plans, tasks, tickets, work_logs, standups, planSeq, taskSeq,
                   workLogSeq, standupSeq, now, inflight, generated,
                   eventLoop, opencode, dashboard>>

\* POST /api/ai/parse-ticket, from the point where the agent call has settled
AiParseTicket(ticket_key, ticket_data, threw, text) ==
    /\ LET invalid == Falsy(ticket_key) \/ ticket_data = NoTicketData
           parsed == IF invalid \/ threw
                     THEN [threw |-> TRUE, value |-> <<>>]
                     ELSE parseTicket(ticket_key, ticket_data.fields, text)
       IN last' = [NoLast EXCEPT !.op = "ai.parse-ticket",
                                 !.status = IF invalid THEN 400
                                            ELSE IF parsed.threw THEN 500 ELSE 200,
                                 !.id = ticket_key,
                                 !.body = ticket_data,
                                 !.content = IF threw THEN UNDEF ELSE text,
                                 !.rows = IF parsed.threw THEN {} ELSE {parsed.value},
                                 !.calls = IF invalid THEN 0 ELSE 1]
    /\ UNCHANGED <<plans, tasks, tickets, work_logs, standups, planSeq, taskSeq,
                   workLogSeq, standupSeq, now, inflight, generated,
                   eventLoop, opencode, dashboard>>

----------------------------------------------------------------------------
(* The API process: the event loop over the handlers of routes/tasks.ts *)

\* no handler runs: the call stack is empty
NoTurn == [op |-> "none"]

\* turn: the handler that runs; queue: the requests that have reached the
\* process and wait for the event loop, in the order they arrived
EventLoopInit == [turn |-> NoTurn, queue |-> <<>>]

\* a handler of POST /bulk that is async and awaits after each statement
BulkAwaitsEachStatement == TRUE

\* whether the handler of POST /bulk gives the event loop a turn between its
\* statements: it is a plain function and run() is a synchronous call
BulkAwaits == FALSE

\* the event loop takes the next request when no handler runs, or when the
\* one that runs awaits
TurnFree == eventLoop.turn.op = "none" \/ BulkAwaits

\* a request reaches the process, at any time: arrived tells whether a bulk
\* save was between its statements then
Arrives(op, planId, list) ==
    /\ Len(eventLoop.queue) < MaxQueue
    /\ eventLoop' = [eventLoop EXCEPT !.queue =
                        Append(@, [op |-> op, planId |-> planId, list |-> list,
                                   arrived |-> eventLoop.turn.op])]
    /\ UNCHANGED <<plans, tasks, tickets, work_logs, standups, planSeq, taskSeq,
                   workLogSeq, standupSeq, now, inflight, last, generated,
                   opencode, dashboard>>

\* GET /api/tasks?planId= arrives
TasksGetArrives(planId) == Arrives("get", planId, <<>>)

\* POST /api/tasks/bulk arrives
TasksBulkArrives(planId, list) == Arrives("bulk", planId, list)

\* the event loop hands the first waiting request, a GET, to its handler,
\* which runs to its end
TasksGetTurn ==
    /\ TurnFree
    /\ eventLoop.queue # <<>>
    /\ Head(eventLoop.queue).op = "get"
    /\ LET req == Head(eventLoop.queue)
       IN last' = [TasksGetResponse(req.planId) EXCEPT !.body = [arrived |-> req.arrived]]
    /\ eventLoop' = [eventLoop EXCEPT !.queue = Tail(@)]
    /\ UNCHANGED <<plans, tasks, tickets, work_logs, standups, planSeq, taskSeq,
                   workLogSeq, standupSeq, now, inflight, generated,
                   opencode, dashboard>>

\* the response of POST /bulk for the turn t
BulkTurnResponse(t, status) ==
    [NoLast EXCEPT !.op = "tasks.bulk", !.status = status, !.planId = t.planId,
                   !.list = t.list, !.ids = t.ids, !.done = t.done, !.had = t.had]

\* the event loop hands the first waiting request, a bulk save, to its
\* handler, which runs its first statement: the DELETE
TasksBulkTurnDelete ==
    /\ eventLoop.turn.op = "none"
    /\ eventLoop.queue # <<>>
    /\ Head(eventLoop.queue).op = "bulk"
    /\ taskSeq + NeedUuid(Head(eventLoop.queue).list) <= MaxUuid
    /\ LET req == Head(eventLoop.queue)
           t == [op |-> "bulk", planId |-> req.planId, list |-> req.list, done |-> 0,
                 ids |-> <<>>, had |-> TaskIds(SelectByPlan(tasks, req.planId)),
                 before |-> tasks, seq |-> taskSeq]
       IN IF DeleteByPlanOk(tasks, req.planId)
          THEN /\ tasks' = DeleteByPlan(tasks, req.planId)
               /\ eventLoop' = [turn |-> t, queue |-> Tail(eventLoop.queue)]
               /\ last' = last
          ELSE /\ tasks' = tasks
               /\ eventLoop' = [eventLoop EXCEPT !.queue = Tail(@)]
               /\ last' = BulkTurnResponse([t EXCEPT !.done = -1], 500)
    /\ UNCHANGED <<plans, tickets, work_logs, standups, planSeq, taskSeq, workLogSeq,
                   standupSeq, now, inflight, generated, opencode, dashboard>>

\* the handler of POST /bulk runs the INSERT of its next task: run() returns,
\* or throws and the catch block answers 500
TasksBulkTurnInsert ==
    /\ eventLoop.turn.op = "bulk"
    /\ eventLoop.turn.done < Len(eventLoop.turn.list)
    /\ LET t == eventLoop.turn
           task == t.list[t.done + 1]
           seq == IF Falsy(task.id) THEN taskSeq + 1 ELSE taskSeq
           row == BulkRow(task, t.planId, TaskUuid(seq))
       IN /\ taskSeq' = seq
          /\ IF TaskInsertOk(tasks, plans, row)
             THEN /\ tasks' = tasks \cup {row}
                  /\ eventLoop' = [eventLoop EXCEPT !.turn.done = @ + 1,
                                                    !.turn.ids = Append(@, row.id)]
                  /\ last' = last
             ELSE /\ tasks' = tasks
                  /\ eventLoop' = [eventLoop EXCEPT !.turn = NoTurn]
                  /\ last' = BulkTurnResponse(t, 500)
    /\ UNCHANGED <<plans, tickets, work_logs, standups, planSeq, workLogSeq,
                   standupSeq, now, inflight, generated, opencode, dashboard>>

\* the loop of POST /bulk is through: res.json({ success: true })
TasksBulkTurnRespond ==
    /\ eventLoop.turn.op = "bulk"
    /\ eventLoop.turn.done = Len(eventLoop.turn.list)
    /\ last' = BulkTurnResponse(eventLoop.turn, 200)
    /\ eventLoop' = [eventLoop EXCEPT !.turn = NoTurn]
    /\ UNCHANGED <<plans, tasks, tickets, work_logs, standups, planSeq, taskSeq,
                   workLogSeq, standupSeq, now, inflight, generated,
                   opencode, dashboard>>

----------------------------------------------------------------------------
(* services/opencodeService.ts: getClient *)

\* opencodeInstance: the module's variable, null or the instance created
\* (instances are numbered as createOpencode is called); created: the number
\* of calls of createOpencode; awaiting: the calls of getClient that await
\* createOpencode; clients: the clients getClient has returned, per caller;
\* calls: the number of calls of getClient
OpencodeInit ==
    [opencodeInstance |-> NULL, created |-> 0, awaiting |-> {}, clients |-> {},
     calls |-> 0]

\* the instance the n-th call of createOpencode resolves to
OpencodeInstance(n) == "oc" \o ToString(n)

\* the methods of OpenCodeService that start with await getClient()
ServiceMethods == {"chat", "parseTicket", "analyzeTask"}

\* getClient() with OPENCODE_SERVER_URL unset, up to its return or its
\* await: with an instance it returns the instance's client, without one it
\* calls createOpencode and awaits
GetClient(by) ==
    /\ opencode.calls < MaxCallers
    /\ opencode' =
          IF opencode.opencodeInstance # NULL
          THEN [opencode EXCEPT !.calls = @ + 1,
                                !.clients = @ \cup {[by |-> by,
                                                     client |-> opencode.opencodeInstance]}]
          ELSE [opencode EXCEPT !.calls = @ + 1,
                                !.created = @ + 1,
                                !.awaiting = @ \cup {[by |-> by,
                                                      instance |->
                                                          OpencodeInstance(opencode.created + 1)]}]
    /\ UNCHANGED <<plans, tasks, tickets, work_logs, standups, planSeq, taskSeq,
                   workLogSeq, standupSeq, now, inflight, last, generated,
                   eventLoop, dashboard>>

\* createOpencode resolves for the call w: the instance is assigned to
\* opencodeInstance and getClient returns opencodeInstance.client
CreateOpencodeResolves(w) ==
    /\ w \in opencode.awaiting
    /\ opencode' = [opencode EXCEPT !.opencodeInstance = w.instance,
                                    !.awaiting = @ \ {w},
                                    !.clients = @ \cup {[by |-> w.by,
                                                         client |-> w.instance]}]
    /\ UNCHANGED <<plans, tasks, tickets, work_logs, standups, planSeq, taskSeq,
                   workLogSeq, standupSeq, now, inflight, last, generated,
                   eventLoop, dashboard>>

\* createOpencode rejects for the call w (the server does not start, or its
\* port is taken): getClient throws
CreateOpencodeRejects(w) ==
    /\ w \in opencode.awaiting
    /\ opencode' = [opencode EXCEPT !.awaiting = @ \ {w}]
    /\ UNCHANGED <<plans, tasks, tickets, work_logs, standups, planSeq, taskSeq,
                   workLogSeq, standupSeq, now, inflight, last, generated,
                   eventLoop, dashboard>>

----------------------------------------------------------------------------
(* The frontend: components/Dashboard.tsx and components/TaskManager.tsx *)

\* the keys of the task objects of the frontend: those of a row of the API
\* (the column names) and those of the frontend's Task type that differ
FrontKeys == TaskColumns \cup {"jiraKey", "jiraUrl", "planId"}

\* response.json() of a task row: an object under the column names; the
\* properties jiraKey, jiraUrl and planId are undefined on it
FetchedTask(row) == [k \in FrontKeys |-> IF k \in TaskColumns THEN row[k] ELSE UNDEF]

\* the rows of a response in the order the store returned them (no claim
\* depends on the order: one is fixed)
FetchedTasks(rows) ==
    LET order == CHOOSE o \in RowOrders(rows) : TRUE
    IN [i \in 1..Cardinality(rows) |-> FetchedTask(order[i])]

\* the Task handleAddJiraTicket builds from the parsed ticket; clock is
\* Date.now()
JiraTask(jiraKey, parsedTicket, planId, clock) ==
    [k \in FrontKeys |->
        CASE k = "id" -> "jira-" \o jiraKey \o "-" \o ToString(clock)
          [] k = "title" -> Property(parsedTicket, "summary")
          [] k = "description" -> Or(Property(parsedTicket, "description"), EmptyStr)
          [] k = "priority" ->
                IF Property(parsedTicket, "priority") \in {"High", "Medium"}
                THEN Property(parsedTicket, "priority") ELSE "Low"
          [] k = "status" -> "todo"
          [] k = "source" -> "jira"
          [] k = "jiraKey" -> jiraKey
          [] k = "estimate" -> Or(Property(parsedTicket, "story_points"), UNDEF)
          [] k = "assignee" -> Or(Property(parsedTicket, "assignee"), UNDEF)
          [] k = "planId" -> planId
          [] OTHER -> UNDEF]

\* no add of the TaskManager is awaiting
NoAdd == [kind |-> "none"]

\* no bulk save has been answered
NoSettled == [status |-> 0]

\* currentPlan, tasks: the Dashboard's state; fetches: the plans whose
\* fetchTasks awaits its response; adding: the add that awaits, with the
\* tasks and the planId its handler closed over and the ids removed since;
\* saves: the bulk saves that await their response, oldest first; changes:
\* the number of task changes the user has made; settled: the bulk save
\* answered last
DashboardInit ==
    [currentPlan |-> NULL, tasks |-> <<>>, fetches |-> {}, adding |-> NoAdd,
     saves |-> <<>>, changes |-> 0, settled |-> NoSettled]

\* the ids of a list of tasks
ListIds(list) == {list[i].id : i \in 1..Len(list)}

\* tasks.filter(t => t.id !== taskId)
WithoutTask(list, taskId) == SelectSeq(list, LAMBDA t : t.id # taskId)

\* the tasks the TaskManager shows: tasks.filter(t => t.planId === planId)
PlanTasks(list, planId) == SelectSeq(list, LAMBDA t : t.planId = planId)

\* Dashboard.handleTasksChange(newTasks) up to its await, in the render whose
\* currentPlan is planId: setTasks, then the POST of the list under planId
HandleTasksChange(d, newTasks, planId) ==
    [d EXCEPT !.tasks = newTasks,
              !.saves = Append(@, [planId |-> planId, list |-> newTasks])]

\* the user picks a stored plan on the LandingPage: setCurrentPlan, and
\* fetchTasks up to its await
HandlePlanSelected(planId) ==
    /\ dashboard.currentPlan = NULL
    /\ planId \in PlanIds(plans)
    /\ dashboard' = [dashboard EXCEPT !.currentPlan = planId,
                                      !.fetches = @ \cup {planId}]
    /\ UNCHANGED <<plans, tasks, tickets, work_logs, standups, planSeq, taskSeq,
                   workLogSeq, standupSeq, now, inflight, last, generated,
                   eventLoop, opencode>>

\* the Change Plan button: setCurrentPlan(null)
ChangePlan ==
    /\ dashboard.currentPlan # NULL
    /\ dashboard' = [dashboard EXCEPT !.currentPlan = NULL]
    /\ UNCHANGED <<plans, tasks, tickets, work_logs, standups, planSeq, taskSeq,
                   workLogSeq, standupSeq, now, inflight, last, generated,
                   eventLoop, opencode>>

\* fetchTasks(planId) after its await: the API has answered the plan's rows
\* and setTasks takes them, or the fetch failed and the list stays
FetchTasksSettles(planId, ok) ==
    /\ planId \in dashboard.fetches
    /\ dashboard' = [dashboard EXCEPT
                        !.fetches = @ \ {planId},
                        !.tasks = IF ok THEN FetchedTasks(TasksGetResponse(planId).rows)
                                        ELSE @]
    /\ UNCHANGED <<plans, tasks, tickets, work_logs, standups, planSeq, taskSeq,
                   workLogSeq, standupSeq, now, inflight, last, generated,
                   eventLoop, opencode>>

\* an add handler of the TaskManager up to its await: it has closed over the
\* tasks and the planId of the render in which the form was submitted
AddStarts(kind, text) ==
    /\ dashboard.currentPlan # NULL
    /\ dashboard.adding = NoAdd
    /\ dashboard.changes < MaxChanges
    /\ Trim(text) # EmptyStr
    /\ dashboard' = [dashboard EXCEPT
                        !.changes = @ + 1,
                        !.adding = [kind |-> kind, text |-> text,
                                    tasks |-> dashboard.tasks,
                                    planId |-> dashboard.currentPlan,
                                    clock |-> dashboard.changes,
                                    removed |-> {}]]
    /\ UNCHANGED <<plans, tasks, tickets, work_logs, standups, planSeq, taskSeq,
                   workLogSeq, standupSeq, now, inflight, last, generated,
                   eventLoop, opencode>>

\* TaskManager.handleAddManualTask up to its await
HandleAddManualTask(taskDescription) == AddStarts("manual", taskDescription)

\* TaskManager.handleAddJiraTicket up to its first await
HandleAddJiraTicket(jiraKey) == AddStarts("jira", jiraKey)

\* handleAddManualTask after its await: POST /api/tasks/analyze has been
\* handled; the response is not ok and the form shows an error, or the new
\* row is appended to the tasks closed over and handed to onTasksChange
HandleAddManualTaskSettles(agent) ==
    /\ dashboard.adding.kind = "manual"
    /\ analyzeTask(dashboard.adding.text, agent).threw \/ taskSeq < MaxUuid
    /\ Len(dashboard.saves) < MaxSaves
    /\ LET add == dashboard.adding
           result == analyzeTask(add.text, agent)
           row == AnalyzeRow(TaskUuid(taskSeq + 1), result.analysis, add.text, add.planId)
           ok == ~result.threw /\ TaskInsertOk(tasks, plans, row)
           done == [dashboard EXCEPT !.adding = NoAdd]
       IN /\ taskSeq' = IF result.threw THEN taskSeq ELSE taskSeq + 1
          /\ tasks' = IF ok THEN tasks \cup {row} ELSE tasks
          /\ dashboard' = IF ok
                          THEN HandleTasksChange(done, Append(add.tasks, FetchedTask(row)),
                                                 add.planId)
                          ELSE done
    /\ UNCHANGED <<plans, tickets, work_logs, standups, planSeq, workLogSeq,
                   standupSeq, now, inflight, last, generated, eventLoop, opencode>>

\* handleAddJiraTicket after its awaits: getTicket or the parse has thrown
\* and the form shows an error, or the Task built from the parsed ticket is
\* appended to the tasks closed over and handed to onTasksChange
HandleAddJiraTicketSettles(threw, parsedTicket) ==
    /\ dashboard.adding.kind = "jira"
    /\ Len(dashboard.saves) < MaxSaves
    /\ LET add == dashboard.adding
           newTask == JiraTask(add.text, parsedTicket, add.planId, add.clock)
           done == [dashboard EXCEPT !.adding = NoAdd]
       IN dashboard' = IF threw THEN done
                       ELSE HandleTasksChange(done, Append(add.tasks, newTask), add.planId)
    /\ UNCHANGED <<plans, tasks, tickets, work_logs, standups, planSeq, taskSeq,
                   workLogSeq, standupSeq, now, inflight, last, generated,
                   eventLoop, opencode>>

\* TaskManager.handleRemoveTask(taskId), on a task the TaskManager shows
HandleRemoveTask(taskId) ==
    /\ dashboard.currentPlan # NULL
    /\ dashboard.changes < MaxChanges
    /\ Len(dashboard.saves) < MaxSaves
    /\ taskId \in ListIds(PlanTasks(dashboard.tasks, dashboard.currentPlan))
    /\ LET noted == [dashboard EXCEPT
                        !.changes = @ + 1,
                        !.adding = IF @ = NoAdd THEN @
                                   ELSE [@ EXCEPT !.removed = @ \cup {taskId}]]
       IN dashboard' = HandleTasksChange(noted, WithoutTask(dashboard.tasks, taskId),
                                         dashboard.currentPlan)
    /\ UNCHANGED <<plans, tasks, tickets, work_logs, standups, planSeq, taskSeq,
                   workLogSeq, standupSeq, now, inflight, last, generated,
                   eventLoop, opencode>>

\* POST /api/tasks/bulk as the frontend has it handled: the table and the
\* uuid count after the handler, and the status it answers
BulkSaved(planId, list) ==
    LET deleted == DeleteByPlanOk(tasks, planId)
        r == BulkInsert(DeleteByPlan(tasks, planId), plans, planId, list, 1,
                        Len(list), taskSeq, <<>>)
    IN [tbl |-> IF deleted THEN r.tbl ELSE tasks,
        seq |-> IF deleted THEN r.seq ELSE taskSeq,
        status |-> IF deleted /\ ~r.threw THEN 200 ELSE 500]

\* handleTasksChange after its await: the oldest bulk save in flight has
\* been handled and answered; the response is not looked at
HandleTasksChangeSettles ==
    /\ dashboard.saves # <<>>
    /\ LET save == Head(dashboard.saves)
           saved == BulkSaved(save.planId, save.list)
       IN /\ taskSeq + NeedUuid(save.list) <= MaxUuid
          /\ tasks' = saved.tbl
          /\ taskSeq' = saved.seq
          /\ dashboard' = [dashboard EXCEPT
                              !.saves = Tail(@),
                              !.settled = [status |-> saved.status,
                                           planId |-> save.planId,
                                           list |-> save.list]]
    /\ UNCHANGED <<plans, tickets, work_logs, standups, planSeq, workLogSeq,
                   standupSeq, now, inflight, last, generated, eventLoop, opencode>>

----------------------------------------------------------------------------
(* The requests of the model *)

\* a task object of a request body, as the frontend's Task type names its keys
ReqTask(id, title, priority, status, source, jiraKey, estimate) ==
    [id |-> id, title |-> title, description |-> "d1", priority |-> priority,
     status |-> status, source |-> source, jiraKey |-> jiraKey, jiraUrl |-> UNDEF,
     estimate |-> estimate, assignee |-> UNDEF]

TaskInputs ==
    { ReqTask("a", "t1", "High", "todo", "manual", UNDEF, UNDEF),
      ReqTask(UNDEF, "t2", "Low", "in_progress", "jira", "J-1", Zero) }

BulkLists == UNION {[1..n -> TaskInputs] : n \in 0..MaxBulk}

PlanIdInputs == {PlanUuid(n) : n \in 1..MaxPlans} \cup {NULL, UNDEF}

TaskIdInputs == {"a"} \cup {TaskUuid(n) : n \in 1..MaxUuid}

DescriptionInputs == {"d1", UNDEF}

AgentOutcomes ==
    { AgentRejects, AgentNoJson, AgentJson("t1", NULL), AgentJson("t1", "Urgent") }

PatchBodies ==
    { NoBody,
      [id |-> "zz", plan_id |-> PlanUuid(1), source |-> "jira"],
      [status |-> "done", priority |-> NULL, id |-> "zz", plan_id |-> PlanUuid(1),
       source |-> "jira", jira_key |-> "J-2", estimate |-> "8"],
      [priority |-> "Urgent", title |-> "t3"],
      [title |-> NULL, description |-> "d3"] }

PlanInputs == {<<"n1", UNDEF>>}

----------------------------------------------------------------------------
(* Plans and tasks *)

Init ==
    /\ plans = {}
    /\ tasks = {}
    /\ tickets = {}
    /\ work_logs = {}
    /\ standups = {}
    /\ planSeq = 0
    /\ taskSeq = 0
    /\ workLogSeq = 0
    /\ standupSeq = 0
    /\ now = 0
    /\ inflight = 0
    /\ last = NoLast
    /\ generated = <<>>
    /\ eventLoop = EventLoopInit
    /\ opencode = OpencodeInit
    /\ dashboard = DashboardInit

Next ==
    \/ \E p \in PlanInputs : PlansPost(p[1], "2024-01-01", "2024-01-14", p[2])
    \/ \E description \in DescriptionInputs, planId \in PlanIdInputs, agent \in AgentOutcomes :
          TasksAnalyze(description, planId, agent)
    \/ \E id \in TaskIdInputs, updates \in PatchBodies : TasksPatch(id, updates)
    \/ \E id \in TaskIdInputs : TasksDelete(id)
    \/ \E planId \in PlanIdInputs, list \in BulkLists : TasksBulk(planId, list)
    \/ \E planId \in PlanIdInputs, list \in BulkLists, upto \in 0..(MaxBulk - 1) :
          TasksBulkStop(planId, list, upto)

Spec == Init /\ [][Next]_vars

----------------------------------------------------------------------------
(* Standups *)

DateInputs == {IsoDate(t) : t \in 0..MaxNow} \cup {UNDEF}

ContentInputs == {"s1", "s2"}

\* what the user types into the form, or a client puts into the request
FormTexts == {EmptyStr, " ", "did x"}

BlockerTexts == {EmptyStr, "b1"}

StandupNext ==
    \/ Tick
    \/ \E date \in DateInputs, threw \in BOOLEAN, content \in ContentInputs :
          StandupGenerate(date, threw, content)
    \/ \E yesterdayWork \in FormTexts, todayForecast \in FormTexts, blockers \in BlockerTexts :
          \/ HandleGenerate(yesterdayWork, todayForecast, blockers)
          \/ StandupInteractiveSend(yesterdayWork, todayForecast, blockers)
    \/ \E threw \in BOOLEAN, response \in ContentInputs :
          StandupInteractiveSettle(threw, response)
    \/ \E date \in DateInputs \ {UNDEF} : StandupGet(date)

StandupSpec == Init /\ [][StandupNext]_vars

----------------------------------------------------------------------------
(* Work logs: the statements on table work_logs, beside the task routes that
   fill and empty the table it references *)

LegacyTickets == {"T-1"}

WorkLogInit ==
    /\ plans = {}
    /\ tasks = {}
    /\ tickets \in SUBSET LegacyTickets
    /\ work_logs = {}
    /\ standups = {}
    /\ planSeq = 0
    /\ taskSeq = 0
    /\ workLogSeq = 0
    /\ standupSeq = 0
    /\ now = 0
    /\ inflight = 0
    /\ last = NoLast
    /\ generated = <<>>
    /\ eventLoop = EventLoopInit
    /\ opencode = OpencodeInit
    /\ dashboard = DashboardInit

WorkLogNext ==
    \/ \E p \in PlanInputs : PlansPost(p[1], "2024-01-01", "2024-01-14", p[2])
    \/ \E list \in {l \in BulkLists : NeedUuid(l) = 0 /\ Len(l) <= 1} :
          TasksBulk(PlanUuid(1), list)
    \/ \E id \in TaskIdInputs : TasksDelete(id)
    \/ TasksGet(PlanUuid(1))
    \/ \E date \in {"2024-01-01", NULL}, ticket_id \in LegacyTickets \cup {NULL},
          task_id \in TaskIdInputs \cup {NULL} :
          WorkLogInsert(date, ticket_id, task_id)

WorkLogSpec == WorkLogInit /\ [][WorkLogNext]_vars

----------------------------------------------------------------------------
(* The AI routes *)

\* the raw fields of an issue: summary, status.name, priority.name, each
\* there or not
TicketFields(summary, status, priority) ==
    [fields |-> [summary |-> summary, status |-> status, priority |-> priority,
                 description |-> "d1", assignee |-> UNDEF, labels |-> "['l1']",
                 components |-> UNDEF]]

TicketDataInputs ==
    {TicketFields(summary, status, priority) :
        summary \in {"s1", UNDEF}, status \in {"Open", UNDEF}, priority \in {"High", UNDEF}}
    \cup {NoTicketData}

TicketKeyInputs == {"K-1", UNDEF}

\* the response texts of the agent
AgentTexts ==
    { EmptyStr,
      "I could not analyze this ticket.",
      "} nothing {",
      "{ unterminated",
      "Here you go: {not json}",
      "{}",
      "{'summary':7,'labels':'none'}",
      "Result: " \o JsonFull \o " done" }

MessageInputs == {"hi", EmptyStr, UNDEF}

AiNext ==
    \/ \E message \in MessageInputs, threw \in BOOLEAN, text \in AgentTexts :
          AiChat(message, threw, text)
    \/ \E ticket_key \in TicketKeyInputs, ticket_data \in TicketDataInputs,
          threw \in BOOLEAN, text \in AgentTexts :
          AiParseTicket(ticket_key, ticket_data, threw, text)

AiSpec == Init /\ [][AiNext]_vars

----------------------------------------------------------------------------
(* The plan routes, beside the batch generation and the fetch of a standup *)

PlanNameInputs == {"n1", UNDEF, NULL}

PlanDateInputs == {"2024-01-01", UNDEF}

PlanStatusInputs == {UNDEF, NULL, "completed", "archived", "bogus"}

PlanIdParams == {PlanUuid(n) : n \in 1..MaxPlans} \cup {"nope"}

PlanNext ==
    \/ \E name \in PlanNameInputs, startDate \in PlanDateInputs,
          status \in PlanStatusInputs \ {"archived"} :
          PlansPost(name, startDate, "2024-01-14", status)
    \/ PlansList
    \/ \E id \in PlanIdParams : PlansGet(id)
    \/ \E id \in PlanIdParams, status \in PlanStatusInputs : PlansPatchStatus(id, status)
    \/ \E threw \in BOOLEAN : StandupGenerate(IsoDate(0), threw, "s1")
    \/ \E date \in {IsoDate(0), IsoDate(TicksPerDay)} : StandupGet(date)

PlanSpec == Init /\ [][PlanNext]_vars

----------------------------------------------------------------------------
(* The plan routes as the clock advances *)

PlanClockNext ==
    \/ Tick
    \/ \E status \in {UNDEF, "completed"} :
          PlansPost("n1", "2024-01-01", "2024-01-14", status)
    \/ PlansList
    \/ \E id \in PlanIdParams : PlansGet(id)
    \/ \E id \in PlanIdParams : PlansPatchStatus(id, "archived")

PlanClockSpec == Init /\ [][PlanClockNext]_vars

----------------------------------------------------------------------------
(* The routes that require a field of the request or call the AI agent *)

AgentNext ==
    \/ \E name \in PlanNameInputs \ {NULL}, startDate \in PlanDateInputs,
          endDate \in PlanDateInputs :
          PlansPost(name, startDate, endDate, UNDEF)
    \/ \E description \in DescriptionInputs, agent \in AgentOutcomes :
          TasksAnalyze(description, NULL, agent)
    \/ \E date \in {IsoDate(0), UNDEF}, threw \in BOOLEAN :
          StandupGenerate(date, threw, "s1")
    \/ StandupInteractiveSend("did x", EmptyStr, EmptyStr)
    \/ \E threw \in BOOLEAN, response \in ContentInputs :
          StandupInteractiveSettle(threw, response)
    \/ \E message \in MessageInputs, threw \in BOOLEAN : AiChat(message, threw, "ok")

AgentSpec == Init /\ [][AgentNext]_vars

----------------------------------------------------------------------------
(* Task analysis and removal, beside the routes that create plans and tasks *)

\* the description the user types: the one of the end-to-end scenario, and
\* one longer than a title
AnalyzeDescriptions ==
    {"Fix login bug ASAP", "Prepare the quarterly report for the finance team by Friday noon", UNDEF}

\* the response texts of the agent to the prompt of analyzeTask
AnalyzeTexts ==
    { EmptyStr,
      "I cannot analyze this task.",
      "{ unterminated",
      "Here you go: {not json}",
      "{}",
      JsonAnalysis,
      "Sure! " \o JsonAnalysisUrgent }

AnalyzeOutcomes == {AgentRejects} \cup {AgentAnswer(text) : text \in AnalyzeTexts}

AnalyzeNext ==
    \/ PlansPost("n1", "2024-01-01", "2024-01-14", UNDEF)
    \/ \E description \in AnalyzeDescriptions, planId \in PlanIdInputs,
          agent \in AnalyzeOutcomes :
          TasksAnalyze(description, planId, agent)
    \/ \E planId \in PlanIdInputs \ {NULL, UNDEF},
          list \in {l \in BulkLists : NeedUuid(l) = 0 /\ Len(l) <= 1} :
          TasksBulk(planId, list)
    \/ \E id \in TaskIdInputs \cup {"zz"} : TasksDelete(id)
    \/ \E planId \in PlanIdInputs \ {UNDEF} : TasksGet(planId)

AnalyzeSpec == Init /\ [][AnalyzeNext]_vars

----------------------------------------------------------------------------
(* The task routes under the event loop of the API process *)

\* task lists whose tasks carry ids: two tasks, and one id twice
LoopLists ==
    LET a == ReqTask("a", "t1", "High", "todo", "manual", UNDEF, UNDEF)
        b == ReqTask("b", "t2", "Low", "in_progress", "jira", "J-1", UNDEF)
    IN {<<>>, <<a>>, <<b>>, <<a, b>>, <<b, b>>}

EventLoopNext ==
    \/ PlansPost("n1", "2024-01-01", "2024-01-14", UNDEF)
    \/ \E planId \in {PlanUuid(1)} : TasksGetArrives(planId)
    \/ \E planId \in {PlanUuid(1)}, list \in LoopLists : TasksBulkArrives(planId, list)
    \/ TasksGetTurn
    \/ TasksBulkTurnDelete
    \/ TasksBulkTurnInsert
    \/ TasksBulkTurnRespond

EventLoopSpec == Init /\ [][EventLoopNext]_vars

----------------------------------------------------------------------------
(* The OpenCode client under concurrent requests *)

OpencodeNext ==
    \/ \E by \in ServiceMethods : GetClient(by)
    \/ \E w \in opencode.awaiting : CreateOpencodeResolves(w)
    \/ \E w \in opencode.awaiting : CreateOpencodeRejects(w)

OpencodeSpec == Init /\ [][OpencodeNext]_vars

----------------------------------------------------------------------------
(* The Dashboard over the API *)

\* how the agent answers the analysis of a manual task
DashboardAgentOutcomes == {AgentRejects, AgentAnswer(JsonAnalysis)}

\* what parse-ticket answers for the ticket K-1: the fallback built from the
\* raw fields, or the object the agent's text holds
DashboardTickets ==
    {parseTicket("K-1", TicketFields("s1", "Open", "High").fields, text).value :
        text \in {"I could not analyze this ticket.", "{}"}}

DashboardNext ==
    \/ PlansPost("n1", "2024-01-01", "2024-01-14", UNDEF)
    \/ \E planId \in PlanIdInputs : HandlePlanSelected(planId)
    \/ ChangePlan
    \/ \E planId \in PlanIdInputs, ok \in BOOLEAN : FetchTasksSettles(planId, ok)
    \/ HandleAddManualTask("Fix login bug ASAP")
    \/ \E agent \in DashboardAgentOutcomes : HandleAddManualTaskSettles(agent)
    \/ HandleAddJiraTicket("K-1")
    \/ \E threw \in BOOLEAN, parsedTicket \in DashboardTickets :
          HandleAddJiraTicketSettles(threw, parsedTicket)
    \/ \E taskId \in ListIds(dashboard.tasks) : HandleRemoveTask(taskId)
    \/ HandleTasksChangeSettles

DashboardSpec == Init /\ [][DashboardNext]_vars

----------------------------------------------------------------------------
(* Properties of the task routes, checked under Spec *)

\* the rows of a table that belong to plan planId / to any other plan
OfPlan(tbl, planId) == {t \in tbl : t.plan_id = planId}

NotOfPlan(tbl, planId) == {t \in tbl : t.plan_id # planId}

\* row is what the request's task was to be stored as, under id
Carries(row, task, id, planId) ==
    /\ row.id = id
    /\ row.plan_id = planId
    /\ row.title = task.title
    /\ row.description = task.description
    /\ row.priority = task.priority
    /\ row.status = task.status
    /\ row.source = task.source

SeqRange(seq) == {seq[i] : i \in 1..Len(seq)}

\* C1: after a bulk save for a plan succeeds, the plan's stored tasks are
\* exactly the submitted ones: one row per submitted task, under the
\* submitted id when the task carries one and under a fresh id otherwise; no
\* previous task of the plan that was not resubmitted remains; the tasks of
\* every other plan are untouched.
BulkSaveReplacesPlanTasks ==
    [][ (last'.op = "tasks.bulk" /\ last'.status = 200 /\ last'.planId # NULL) =>
        LET planId == last'.planId
            list == last'.list
            ids == last'.ids
            stored == OfPlan(tasks', planId)
        IN /\ Len(ids) = Len(list)
           /\ Cardinality(stored) = Len(list)
           /\ TaskIds(stored) = SeqRange(ids)
           /\ \A i \in 1..Len(list) :
                /\ \E r \in stored : Carries(r, list[i], ids[i], planId)
                /\ IF Falsy(list[i].id)
                   THEN /\ ids[i] \notin TaskIds(tasks)
                        /\ \A j \in 1..Len(list) : j # i => ids[j] # ids[i]
                   ELSE ids[i] = list[i].id
           /\ \A t \in OfPlan(tasks, planId) :
                t.id \notin SeqRange(ids) => t.id \notin TaskIds(tasks')
           /\ NotOfPlan(tasks', planId) = NotOfPlan(tasks, planId)
      ]_vars

\* C1 witness: a bulk save has succeeded for a plan, storing a task that
\* carried no id under a fresh one, while another plan holds a task
BulkSaveReplacedWitness ==
    /\ last.op = "tasks.bulk" /\ last.status = 200 /\ last.planId # NULL
    /\ \E i \in 1..Len(last.list) :
         Falsy(last.list[i].id) /\ last.ids[i] \in TaskIds(OfPlan(tasks, last.planId))
    /\ \E t \in tasks : t.plan_id \notin {last.planId, NULL}

\* C2: a bulk save is not all-or-nothing.  When an insert throws after the
\* DELETE ran (or the process stops inside the loop), the caller of the failed
\* request is answered 500, the plan holds exactly the rows inserted before
\* the failure, and its previous tasks are gone unless one of those inserts
\* brought the id back.
BulkSavePartialFailure ==
    [][ LET planId == last'.planId
            list == last'.list
            ids == last'.ids
            done == last'.done
            failed == last'.op = "tasks.bulk" /\ done >= 0 /\ done < Len(list)
            stopped == last'.op = "tasks.bulk.stop"
            stored == OfPlan(tasks', planId)
        IN ((failed \/ stopped) /\ planId # NULL) =>
             /\ failed => last'.status = 500
             /\ done < Len(list) /\ Len(ids) = done
             /\ Cardinality(stored) = done
             /\ \A i \in 1..done : \E r \in stored : Carries(r, list[i], ids[i], planId)
             /\ \A t \in OfPlan(tasks, planId) :
                  t.id \notin SeqRange(ids) => t.id \notin TaskIds(tasks')
             /\ NotOfPlan(tasks', planId) = NotOfPlan(tasks, planId)
      ]_vars

\* C2 witness: the second insert of a bulk save threw: the request was
\* answered 500, one submitted row is stored and a previous task is lost
BulkSavePartialWitness ==
    /\ last.op = "tasks.bulk" /\ last.status = 500 /\ last.planId # NULL
    /\ Len(last.list) = 2 /\ last.done = 1
    /\ \E id \in last.had : id \notin TaskIds(tasks)

\* C3: a bulk save with an empty task list leaves the plan with no stored
\* task, whatever the plan held before.
BulkSaveEmptyClearsPlan ==
    (last.op = "tasks.bulk" /\ last.list = <<>> /\ last.planId \notin {NULL, UNDEF}) =>
        /\ last.status = 200
        /\ OfPlan(tasks, last.planId) = {}

\* C3 witness: an empty bulk save was answered for a plan that held tasks
BulkSaveEmptyWitness ==
    /\ last.op = "tasks.bulk" /\ last.list = <<>> /\ last.status = 200
    /\ last.had # {}

\* the fields the claims name as mutable
MutableFields == {"status", "priority", "title", "description"}

\* C4: an update whose body names no mutable field (only other keys, or no
\* key at all) is answered 400 and changes no row.
UpdateWithoutMutableFieldRejected ==
    [][ (last'.op = "tasks.patch" /\ DOMAIN last'.body \cap MutableFields = {}) =>
          /\ last'.status = 400
          /\ tasks' = tasks
          /\ plans' = plans
      ]_vars

\* C4 witness: an update naming only keys outside the allow-list was rejected
\* for a task that is stored
UpdateRejectedWitness ==
    /\ last.op = "tasks.patch" /\ last.status = 400
    /\ "plan_id" \in DOMAIN last.body
    /\ \E t \in tasks : t.id = last.id /\ t.plan_id # last.body["plan_id"]

\* C5: an update changes only the mutable fields its body names, and only on
\* the task of the given id: the other columns of that task keep their values,
\* whatever else the body names, and every other task is unchanged.
UpdateChangesOnlyNamedMutableFields ==
    [][ last'.op = "tasks.patch" =>
        LET named == DOMAIN last'.body \cap MutableFields
        IN /\ TaskIds(tasks') = TaskIds(tasks)
           /\ \A t \in tasks :
                IF t.id # last'.id
                THEN t \in tasks'
                ELSE \E r \in tasks' :
                       /\ r.id = t.id
                       /\ \A c \in TaskColumns \ named : r[c] = t[c]
                       /\ last'.status = 200 => \A c \in named : r[c] = last'.body[c]
      ]_vars

\* C5 witness: an update naming mutable and other keys was applied: the status
\* changed, the source and the owning plan named in the body were not taken
UpdateAppliedWitness ==
    /\ last.op = "tasks.patch" /\ last.status = 200
    /\ {"status", "source", "plan_id", "estimate"} \subseteq DOMAIN last.body
    /\ \E t \in tasks :
         /\ t.id = last.id
         /\ t.status = last.body["status"]
         /\ t.source # last.body["source"]
         /\ t.plan_id # last.body["plan_id"]
         /\ \E o \in tasks : o.id # t.id

\* C6: every stored task has a priority among High, Medium, Low, a status
\* among todo, in_progress, done, blocked and a source among manual, jira.
StoredTaskEnumsValid ==
    \A t \in tasks :
        /\ t.priority \in {"High", "Medium", "Low"}
        /\ t.status \in {"todo", "in_progress", "done", "blocked"}
        /\ t.source \in {"manual", "jira"}

\* C7: the plan_id of every stored task is the id of a stored plan.
StoredTaskPlanExists == \A t \in tasks : \E p \in plans : p.id = t.plan_id

----------------------------------------------------------------------------
(* Work logs *)

\* C8, as stated: every stored work log references exactly one of a legacy
\* ticket and a task; the check constraint rejects a row with both.
WorkLogReferencesExactlyOne ==
    \A w \in work_logs : (w.ticket_id = NULL) # (w.task_id = NULL)

\* C8, as the schema has it: every stored work log references at least one of
\* a legacy ticket and a task. The check constraint rejects a row with
\* neither, and accepts a row with both when the two rows referenced exist.
WorkLogReferencesAtLeastOne ==
    /\ \A w \in work_logs : w.ticket_id # NULL \/ w.task_id # NULL
    /\ last.op = "work_logs.insert" =>
          /\ (last.body.ticket_id = NULL /\ last.body.task_id = NULL) => last.rows = {}
          /\ last.rows # {} => \A w \in last.rows :
                /\ w.ticket_id = last.body.ticket_id
                /\ w.task_id = last.body.task_id
                /\ w \in work_logs

\* an insert with neither reference was rejected while the table holds a row
\* with only a ticket, a row with only a task and a row with both
WorkLogCheckWitness ==
    /\ last.op = "work_logs.insert"
    /\ last.date # NULL
    /\ last.body.ticket_id = NULL /\ last.body.task_id = NULL
    /\ last.rows = {}
    /\ \E w \in work_logs : w.ticket_id # NULL /\ w.task_id = NULL
    /\ \E w \in work_logs : w.ticket_id = NULL /\ w.task_id # NULL
    /\ \E w \in work_logs : w.ticket_id # NULL /\ w.task_id # NULL

----------------------------------------------------------------------------
(* Standups *)

\* a generation completed and persisted its content
StandupGenerated ==
    last.op \in {"standup.generate", "standup.interactive"} /\ last.status = 200

UniquePerDate(tbl) == \A r1, r2 \in tbl : r1.date = r2.date => r1 = r2

\* C9: the standups table holds at most one row per date, and a generation
\* for a date that already has a row leaves the table with as many rows as it
\* had, the row of that date carrying the new content and the rows of the
\* other dates untouched; a generation for a new date adds one row.
StandupsOnePerDate ==
    [][/\ UniquePerDate(standups')
       /\ StandupGenerated' /\ standupSeq' # standupSeq =>
             /\ \E r \in standups' : r.date = last'.date /\ r.content = last'.content
             /\ {r \in standups' : r.date # last'.date}
                  = {r \in standups : r.date # last'.date}
             /\ Cardinality(standups') =
                  IF \E r \in standups : r.date = last'.date
                  THEN Cardinality(standups)
                  ELSE Cardinality(standups) + 1]_vars

\* a generation has overwritten the row of a date with different content
\* while another date keeps its row
StandupOverwrittenWitness ==
    /\ StandupGenerated
    /\ \E r \in standups : r.date = last.date /\ r.content = last.content /\ r.id > 2
    /\ \E r \in standups : r.date # last.date
    /\ Cardinality(standups) = 2
    /\ standupSeq = 3

\* C10: once a generation for a date has completed, the row fetched for that
\* date carries exactly the content of the most recent completed generation
\* for it, a fetch answers 200 with that row and changes nothing, so that
\* repeated fetches agree until the next generation; an interactive
\* generation is stored under the server's current date.
StandupFetchReturnsLatest ==
    [][/\ \A d \in DOMAIN generated' :
             \E r \in getStandup(standups', d) :
                 getStandup(standups', d) = {r} /\ r.content = generated'[d]
       /\ last'.op = "standup.get" =>
             /\ standups' = standups /\ generated' = generated
             /\ last'.rows = getStandup(standups, last'.date)
             /\ last'.date \in DOMAIN generated => last'.status = 200
             /\ (last.op = "standup.get" /\ last.date = last'.date) => last'.rows = last.rows
       /\ inflight' < inflight /\ last'.status = 200 =>
             /\ last'.date = IsoDate(now')
             /\ \E r \in standups' : r.date = IsoDate(now') /\ r.content = last'.content]_vars

\* a fetch returned the content of the second generation for its date, which
\* was an interactive one that settled a day after the first row was written
StandupFetchWitness ==
    /\ last.op = "standup.get" /\ last.status = 200
    /\ last.date = IsoDate(now)
    /\ now >= TicksPerDay
    /\ \E r \in last.rows : r.content = generated[last.date] /\ r.id > 1
    /\ \E r \in standups : r.date # last.date /\ r.content # generated[last.date]

\* C11: an interactive standup request whose yesterdayWork, todayForecast and
\* blockers are all empty is answered 400 and sends no prompt to the agent
\* (and so writes no row), through the form or directly.
EmptyInteractiveRejected ==
    (/\ last.op \in {"form.generate", "standup.interactive.send"}
     /\ last.body.yesterdayWork = EmptyStr
     /\ last.body.todayForecast = EmptyStr
     /\ last.body.blockers = EmptyStr) =>
        /\ last.calls = 0
        /\ last.op = "standup.interactive.send" => last.status = 400

----------------------------------------------------------------------------
(* The AI routes *)

\* the agent's text holds no parseable JSON object
NoParseableJson(text) ==
    \/ indexOf(text, "{") = -1
    \/ lastIndexOf(text, "}") = -1
    \/ JsonParse(SliceFrom(text, indexOf(text, "{"), lastIndexOf(text, "}") + 1)).threw

\* parse-ticket was called with its required fields and the agent answered
TicketParsed ==
    /\ last.op = "ai.parse-ticket"
    /\ last.calls = 1
    /\ last.content # UNDEF

\* C12, as stated: when the agent's text holds no parseable JSON object,
\* parseTicket does not fail and returns the fallback, whose summary, status
\* and priority equal the raw fields of the issue, whose key is the requested
\* key and whose raw_analysis is the agent's text.
TicketFallbackEqualsRawFields ==
    (TicketParsed /\ NoParseableJson(last.content)) =>
        /\ last.status = 200
        /\ \E r \in last.rows :
              /\ last.rows = {r}
              /\ r.key = Str(last.id)
              /\ r.summary = Str(last.body.fields.summary)
              /\ r.status = Str(last.body.fields.status)
              /\ r.priority = Str(last.body.fields.priority)
              /\ r.raw_analysis = Str(last.content)

\* the raw field when the issue carries it, the default otherwise
RawOr(field, default) == Str(IF Falsy(field) THEN default ELSE field)

\* C12, as the code has it: when the agent's text holds no parseable JSON
\* object, parseTicket does not fail and returns the fallback, whose summary,
\* status and priority equal the raw fields of the issue where the issue
\* carries them and are '', 'Unknown' and 'Medium' where it does not, whose
\* key is the requested key and whose raw_analysis is the agent's text.
TicketFallbackFromRawFields ==
    (TicketParsed /\ NoParseableJson(last.content)) =>
        /\ last.status = 200
        /\ \E r \in last.rows :
              /\ last.rows = {r}
              /\ r.key = Str(last.id)
              /\ r.summary = RawOr(last.body.fields.summary, EmptyStr)
              /\ r.status = RawOr(last.body.fields.status, "Unknown")
              /\ r.priority = RawOr(last.body.fields.priority, "Medium")
              /\ r.raw_analysis = Str(last.content)

\* the agent answered a text whose braces hold no JSON for an issue without
\* a priority, and the fallback carrying that text was returned
TicketFallbackWitness ==
    /\ TicketParsed /\ last.status = 200
    /\ indexOf(last.content, "{") # -1 /\ lastIndexOf(last.content, "}") # -1
    /\ NoParseableJson(last.content)
    /\ last.body.fields.priority = UNDEF /\ last.body.fields.summary # UNDEF
    /\ \E r \in last.rows : r.raw_analysis = Str(last.content) /\ r.priority = Str("Medium")

\* the declared type of a value
HasType(obj, key, types) == key \in DOMAIN obj /\ obj[key].t \in types

\* interface ParsedTicket
WellTypedTicket(obj) ==
    /\ \A key \in {"key", "summary", "status", "priority", "description", "raw_analysis"} :
          HasType(obj, key, {"string"})
    /\ HasType(obj, "labels", {"array"})
    /\ HasType(obj, "components", {"array"})
    /\ "assignee" \in DOMAIN obj => obj["assignee"].t \in {"string", "undefined"}
    /\ "story_points" \in DOMAIN obj => obj["story_points"].t \in {"number", "undefined"}

\* C13: for every text the agent answers, parseTicket returns a well-typed
\* ParsedTicket.
ParsedTicketWellTyped ==
    (TicketParsed /\ last.status = 200) => \A r \in last.rows : WellTypedTicket(r)

----------------------------------------------------------------------------
(* The plan routes *)

\* a plan creation input: a name, two dates, and a status that is omitted or
\* one of the three of the schema
ValidPlanInput(body) ==
    /\ ~Falsy(body.name) /\ ~Falsy(body.startDate) /\ ~Falsy(body.endDate)
    /\ body.status \in PlanStatuses \cup {UNDEF}

\* C14: for every valid plan creation input the answer is the new plan: its
\* id is fresh, its name and dates are the submitted ones, its status is
\* 'active' when the request omits it and the submitted status otherwise,
\* and the store holds exactly that one plan more.
PlanCreatedAsSubmitted ==
    [][ (last'.op = "plans.post" /\ ValidPlanInput(last'.body)) =>
          /\ last'.status = 200
          /\ \E r \in last'.rows :
                /\ last'.rows = {r}
                /\ r.id \notin PlanIds(plans)
                /\ r.name = last'.body.name
                /\ r.start_date = last'.body.startDate
                /\ r.end_date = last'.body.endDate
                /\ r.status = IF last'.body.status = UNDEF THEN "active"
                                                             ELSE last'.body.status
                /\ plans' = plans \cup {r}
                /\ Cardinality(plans') = Cardinality(plans) + 1
      ]_vars

\* a second plan was created with a submitted status, beside a plan created
\* without one
PlanCreatedWitness ==
    /\ last.op = "plans.post" /\ last.status = 200
    /\ last.body.status = "completed"
    /\ \E r \in last.rows : r \in plans /\ r.status = "completed"
    /\ \E p \in plans : p.id # last.id /\ p.status = "active"

\* C15: every stored plan's status is one of active, completed, archived.
StoredPlanStatusValid == \A p \in plans : p.status \in {"active", "completed", "archived"}

\* a request omits a field its route requires
MissingRequiredField ==
    \/ last.op = "plans.post" /\ UNDEF \in {last.body.name, last.body.startDate, last.body.endDate}
    \/ last.op = "tasks.analyze" /\ last.body.description = UNDEF
    \/ last.op = "standup.generate" /\ last.date = UNDEF
    \/ last.op = "ai.chat" /\ last.body.message = UNDEF

\* C16: a request that omits a required field (plan create without name,
\* startDate or endDate, task analyze without description, batch standup
\* generate without date, AI chat without message) is answered 400, writes
\* nothing and calls the agent not once.
MissingFieldRejected ==
    MissingRequiredField =>
        /\ last.status = 400
        /\ last.rows = {}
        /\ last.calls = 0

\* C17: a status update for an id that matches no stored plan is answered 404
\* and leaves the plans as they are.
UnknownPlanStatusNotFound ==
    (last.op = "plans.status" /\ last.body.status # UNDEF /\ last.id \notin PlanIds(plans)) =>
        last.status = 404

\* C18: GET /plans/:id answers the stored plan of that id, or 404 when there
\* is none; the fetch of a standup answers 404 for a date without a row;
\* neither changes the store.
ReadsAnswerOrNotFound ==
    [][ /\ last'.op = "plans.get" =>
             /\ plans' = plans /\ standups' = standups /\ tasks' = tasks
             /\ last'.rows = {p \in plans : p.id = last'.id}
             /\ last'.status = IF last'.id \in PlanIds(plans) THEN 200 ELSE 404
        /\ last'.op = "standup.get" =>
             /\ plans' = plans /\ standups' = standups /\ tasks' = tasks
             /\ (\A r \in standups : r.date # last'.date) =>
                   last'.status = 404 /\ last'.rows = {}
      ]_vars

\* a stored plan was fetched while the store holds a standup
PlanFetchedWitness ==
    /\ last.op = "plans.get" /\ last.status = 200
    /\ \E p \in plans : p.id = last.id /\ last.rows = {p}
    /\ \E p \in plans : p.id # last.id
    /\ standups # {}

\* a request of the plan and standup routes did not succeed: it wrote and
\* returned no plan, found no plan or no standup, or generated no standup
RequestNotSucceeded ==
    \/ last.op \in {"plans.post", "plans.get", "plans.status", "standup.get"} /\ last.rows = {}
    \/ last.op = "standup.generate" /\ last.content = UNDEF

\* C20: every request that does not succeed is answered with a status in the
\* 4xx/5xx range (and a JSON error object); none is answered 2xx or with an
\* empty body.
FailureAnsweredAsError ==
    RequestNotSucceeded => last.status \in 400..599

----------------------------------------------------------------------------
(* The routes that call the AI agent before they write *)

\* C19, as stated: when the agent call of task analyze or of the interactive
\* standup fails (the agent is unreachable, or its response has an unexpected
\* shape), the request is answered 500 after one call and has written nothing.
AgentFailureAnswered500 ==
    (\/ last.op = "tasks.analyze" /\ last.agent \in {"reject", "text"}
     \/ last.op = "standup.interactive" /\ last.agent = "reject") =>
        /\ last.status = 500
        /\ last.calls = 1
        /\ last.rows = {}

\* C19, as the code has it: when the agent call of task analyze or of the
\* interactive standup throws (the agent is unreachable, or, for the
\* interactive standup, its response has an unexpected shape), the request
\* is answered 500 after one call and no task and no standup row is written;
\* a text without a JSON object in answer to task analyze is not a failure:
\* the task is stored from the fallback analysis.
AgentThrowAnswered500 ==
    [][ /\ (last'.op \in {"tasks.analyze", "standup.interactive"} /\ last'.agent = "reject") =>
             /\ last'.status = 500
             /\ last'.calls = 1
             /\ tasks' = tasks
             /\ standups' = standups
        /\ (last'.op = "tasks.analyze" /\ last'.agent = "text"
                                       /\ last'.body.description # UNDEF) =>
             /\ last'.status = 200
             /\ \E r \in tasks' \ tasks :
                   /\ tasks' = tasks \cup {r}
                   /\ r.title = Slice(last'.body.description, TitleMax)
                   /\ r.priority = "Medium"
      ]_vars

\* the agent call of an interactive standup threw while the store holds a
\* standup and a task, and another interactive request is still in flight
AgentThrowWitness ==
    /\ last.op = "standup.interactive" /\ last.agent = "reject" /\ last.status = 500
    /\ standups # {} /\ tasks # {}
    /\ inflight > 0

----------------------------------------------------------------------------
(* Task analysis and removal *)

\* the first n characters of a text
Prefix(text, n) == SubSeq(text, 1, IF Len(text) < n THEN Len(text) ELSE n)

\* the title and the priority analyzeTask is to resolve to for a description
\* and the agent's text: those of the JSON object in the text, or those of
\* the fallback when the text holds none
ReturnedAnalysis(description, text) ==
    LET obj == JsonParse(SliceFrom(text, indexOf(text, "{"),
                                   lastIndexOf(text, "}") + 1)).value
    IN IF NoParseableJson(text)
       THEN [title |-> Prefix(description, 50), priority |-> "Medium"]
       ELSE [title |-> Property(obj, "title"), priority |-> Property(obj, "priority")]

\* the agent call of an analyze request succeeded: it answered a text from
\* which analyzeTask has a title and one of the three priorities
AnalyzeSucceeded(l) ==
    /\ l.op = "tasks.analyze"
    /\ l.agent # "reject"
    /\ l.body.description # UNDEF
    /\ l.content # UNDEF
    /\ ReturnedAnalysis(l.body.description, l.content).title \notin {UNDEF, NULL}
    /\ ReturnedAnalysis(l.body.description, l.content).priority \in {"High", "Medium", "Low"}

\* C21: analyze(description, planId) for a stored plan, when the agent call
\* succeeds, adds exactly one task: its id is fresh, its source is 'manual',
\* its status 'todo', its plan_id the planId of the request, its title and
\* priority those of the agent's analysis; the response is that stored task
\* and no other task and no plan changes.
AnalyzeAddsOneManualTask ==
    [][ (AnalyzeSucceeded(last') /\ last'.planId \in PlanIds(plans)) =>
          LET analysis == ReturnedAnalysis(last'.body.description, last'.content)
          IN /\ last'.status = 200
             /\ \E r \in last'.rows :
                   /\ last'.rows = {r}
                   /\ r.id \notin TaskIds(tasks)
                   /\ tasks' = tasks \cup {r}
                   /\ Cardinality(tasks') = Cardinality(tasks) + 1
                   /\ r.source = "manual"
                   /\ r.status = "todo"
                   /\ r.plan_id = last'.planId
                   /\ r.title = analysis.title
                   /\ r.priority = analysis.priority
                   /\ r.description = last'.body.description
             /\ plans' = plans
      ]_vars

\* the agent answered the object asked for and the task was stored with its
\* title and its priority High, beside a task the plan already held
AnalyzeAddedWitness ==
    /\ last.op = "tasks.analyze" /\ last.status = 200
    /\ last.content = JsonAnalysis
    /\ \E r \in last.rows :
          /\ r \in tasks
          /\ r.priority = "High" /\ r.title = "Fix login bug"
          /\ \E o \in tasks : o.id # r.id /\ o.plan_id = r.plan_id
    /\ Cardinality(plans) = 2

\* C22: when the agent's response to analyzeTask holds no parseable JSON
\* object, analyzeTask resolves to the fallback (title: the first 50
\* characters of the description, priority 'Medium', description: the input
\* verbatim): the task analyze persists has that title, priority 'Medium' and
\* the description as typed, and for a stored plan it is persisted.
AnalyzeFallbackPersisted ==
    (/\ last.op = "tasks.analyze"
     /\ last.body.description # UNDEF
     /\ last.content # UNDEF
     /\ NoParseableJson(last.content)) =>
        /\ last.agent = "text"
        /\ \A r \in last.rows :
              /\ r.title = Prefix(last.body.description, 50)
              /\ Len(r.title) <= 50
              /\ r.priority = "Medium"
              /\ r.description = last.body.description
              /\ r \in tasks
        /\ last.planId \in PlanIds(plans) => last.status = 200 /\ last.rows # {}

\* the agent answered braces that hold no JSON to a description longer than
\* a title, and the task was stored under its first 50 characters
AnalyzeFallbackWitness ==
    /\ last.op = "tasks.analyze" /\ last.status = 200
    /\ last.content = "Here you go: {not json}"
    /\ Len(last.body.description) > 50
    /\ \E r \in last.rows :
          r \in tasks /\ Len(r.title) = 50 /\ r.priority = "Medium"

\* C23: delete(id) removes the task of that id when there is one, leaves
\* every other task and every plan as it is, and answers success whether or
\* not a task of that id was stored: a second delete of the same id leaves
\* the store as the first left it.
DeleteRemovesOnlyThatTask ==
    [][ last'.op = "tasks.delete" =>
          /\ last'.status = 200
          /\ tasks' = {t \in tasks : t.id # last'.id}
          /\ plans' = plans
          /\ (last.op = "tasks.delete" /\ last.id = last'.id) => tasks' = tasks
      ]_vars

\* a stored task was removed while another task and its plan stay
TaskDeletedWitness ==
    /\ last.op = "tasks.delete" /\ last.status = 200
    /\ last.had = {last.id}
    /\ last.id \notin TaskIds(tasks)
    /\ tasks # {}
    /\ plans # {}

----------------------------------------------------------------------------
(* The order of the plans listed *)

\* the place of a plan among the plans created: the n of its id
CreatedNth(id) == CHOOSE n \in 1..MaxPlans : PlanUuid(n) = id

\* C24: list() answers every stored plan exactly once, newest first: of any
\* two plans the one created later comes before the one created earlier,
\* whatever the time between the two creations.
PlansListedNewestFirst ==
    last.op = "plans.list" =>
        /\ Len(last.list) = Cardinality(plans)
        /\ {last.list[i] : i \in 1..Len(last.list)} = plans
        /\ \A i, j \in 1..Len(last.list) :
              i < j => CreatedNth(last.list[i].id) > CreatedNth(last.list[j].id)

----------------------------------------------------------------------------
(* The bulk save under the event loop *)

\* a GET of the task routes was handled in this step
ListServed ==
    /\ eventLoop.queue # <<>>
    /\ Head(eventLoop.queue).op = "get"
    /\ eventLoop'.queue = Tail(eventLoop.queue)
    /\ eventLoop'.turn = eventLoop.turn

\* C25: no request the API process handles sees a bulk save between its
\* statements.  The DELETE and the INSERTs of a bulk save run in one turn of
\* the event loop and leave the table as the whole save does; a list(planId)
\* that arrives meanwhile is handled when no bulk save is running, answers
\* the plan's rows as they are stored then, and right after a bulk save for
\* the plan that answered 200 these are exactly the tasks of that save.
ListNeverSeesPartialBulk ==
    [][ /\ ListServed =>
             /\ eventLoop.turn.op = "none"
             /\ tasks' = tasks
             /\ last'.rows = {t \in tasks : t.plan_id = last'.planId}
             /\ (last.op = "tasks.bulk" /\ last.status = 200
                                        /\ last.planId = last'.planId) =>
                   /\ TaskIds(last'.rows) = SeqRange(last.ids)
                   /\ Cardinality(last'.rows) = Len(last.list)
        /\ (eventLoop.turn.op = "bulk" /\ eventLoop'.turn.op = "none") =>
             LET t == eventLoop.turn
                 r == BulkInsert(DeleteByPlan(t.before, t.planId), plans, t.planId,
                                 t.list, 1, Len(t.list), t.seq, <<>>)
             IN /\ tasks' = r.tbl
                /\ last'.op = "tasks.bulk"
                /\ last'.status = IF r.threw THEN 500 ELSE 200
                /\ last'.ids = r.ids
      ]_vars

\* a list that arrived while a bulk save was between its statements was
\* handled after it and answered the two tasks the plan then held
ListAfterBulkWitness ==
    /\ last.op = "tasks.get" /\ last.status = 200
    /\ last.body = [arrived |-> "bulk"]
    /\ TaskIds(last.rows) = {"a", "b"}
    /\ eventLoop.turn.op = "none"

----------------------------------------------------------------------------
(* The OpenCode client *)

\* C26: with OPENCODE_SERVER_URL unset, getClient starts at most one OpenCode
\* server per process whatever the interleaving of the requests:
\* createOpencode is called at most once, also when a second request calls
\* getClient while the first call's createOpencode is still awaited, and
\* every caller gets the client of that one instance.
OpencodeStartedOnce ==
    /\ opencode.created <= 1
    /\ \A c1, c2 \in opencode.clients : c1.client = c2.client


----------------------------------------------------------------------------
(* Properties of the Dashboard over the API, checked under DashboardSpec *)

\* an add of the TaskManager completes in this step and hands a list to
\* onTasksChange
AddCompletes ==
    /\ dashboard.adding # NoAdd
    /\ dashboard'.adding = NoAdd
    /\ Len(dashboard'.saves) = Len(dashboard.saves) + 1

\* C27: a task the user removed while an add was awaiting its response stays
\* removed when the add completes: neither the list the add hands to
\* onTasksChange nor the bulk save it sends contains the removed task.
RemovedStaysRemoved ==
    [][AddCompletes =>
        /\ dashboard.adding.removed \cap ListIds(dashboard'.tasks) = {}
        /\ dashboard.adding.removed
             \cap ListIds(dashboard'.saves[Len(dashboard'.saves)].list) = {}]_vars

\* the plan a task of the frontend belongs to: the plan_id of a fetched row,
\* the planId of a task built in the browser
PlanOf(task) == IF task.plan_id # UNDEF THEN task.plan_id ELSE task.planId

\* every task of the list belongs to the plan
BelongsTo(list, planId) == \A i \in 1..Len(list) : PlanOf(list[i]) = planId

\* the last fetchTasks in flight settles in this step while a plan is selected
LastFetchSettles ==
    /\ dashboard.fetches # {}
    /\ dashboard'.fetches = {}
    /\ dashboard'.currentPlan # NULL

\* C28: when the response to a fetchTasks has been handled (or the fetch has
\* failed) and no other fetch is awaiting, every task of the Dashboard's list
\* belongs to the selected plan, whichever plan the response was for.
TasksBelongToCurrentPlan ==
    [][LastFetchSettles => BelongsTo(dashboard'.tasks, dashboard'.currentPlan)]_vars

\* C29: when a bulk save of the Dashboard is answered 200, every stored task of
\* the plan that the saved list holds as it was fetched is stored afterwards
\* with the same id, title, description, priority, status, source, jira_key,
\* jira_url, estimate, assignee and plan_id.
RoundTripKeepsColumns ==
    [][(dashboard.saves # <<>> /\ dashboard'.saves = Tail(dashboard.saves)
        /\ dashboard'.settled.status = 200)
       => LET save == Head(dashboard.saves)
          IN \A r \in SelectByPlan(tasks, save.planId) :
                (\E i \in 1..Len(save.list) : save.list[i] = FetchedTask(r))
                => r \in tasks']_vars

\* C30: once a task change has settled with nothing else in flight, the tasks
\* stored for the current plan have the ids of the list handed to
\* handleTasksChange, whatever the bulk save was answered.
FrontendAndStoreAgree ==
    (/\ dashboard.settled # NoSettled
     /\ dashboard.saves = <<>> /\ dashboard.adding = NoAdd /\ dashboard.fetches = {}
     /\ dashboard.currentPlan = dashboard.settled.planId
     /\ dashboard.tasks = dashboard.settled.list)
    => TaskIds(SelectByPlan(tasks, dashboard.currentPlan)) = ListIds(dashboard.tasks)

====
